---- MODULE Spec2Model ----
(***************************************************************************)
(* Model of the Z1 cluster emulator's SNN core:                            *)
(*   - SNNEngine            (emulator/core/snn_engine.py)                   *)
(*   - SNNEngineSTDP        (emulator/core/snn_engine_stdp.py)              *)
(*   - the two ClusterSNNCoordinator classes of those files                *)
(*   - SNNCompiler          (python_tools/lib/snn_compiler.py)              *)
(*                                                                         *)
(* Floats are modelled in fixed point: a potential, weight or spike value   *)
(* v stands for v / Scale, a leak rate r for r / Scale.                     *)
(* STDP is disabled by default (STDPConfig.enabled defaults to False); the  *)
(* specifications of the cluster run with that default and leave weights    *)
(* and spike_history alone.  SpecLearning runs one SNNEngineSTDP with       *)
(* learning configurations, traces, weights and spike_history.              *)
(***************************************************************************)
EXTENDS Integers, Sequences, FiniteSets, TLC

\* ---------------------------------------------------------------- bounds
MaxSteps == 2          \* simulation steps each engine may take
MaxInject == 2         \* inject_spike calls over a run

\* ------------------------------------------------------------- constants
Scale == 100                   \* fixed-point unit of the float fields: 100 is 1.0
TIMESTEP_US == 1000            \* SNNEngine.timestep_us default
GLOBAL_BUFFER_MAXLEN == 10000  \* deque(maxlen=10000)
SOURCE_ID_MASK == 16777216     \* 0xFFFFFF + 1
NODE_SHIFT == 65536            \* 1 << 16

NumEngines == 2
Engines == 1..NumEngines
InjectValues == {50}
Variants == {"plain", "stdp"}

VARIABLES
    variant,              \* which engine/coordinator pair is running
    target,               \* the (engine, neuron) the API client stimulates
    node_id,              \* engine -> node id
    backplane_id,         \* engine -> backplane id
    neurons,              \* engine -> local id -> Neuron
    synapses,             \* engine -> local id -> Seq(Synapse)
    incoming_spikes,      \* engine -> Seq(Spike)
    outgoing_spikes,      \* engine -> Seq(Spike)
    current_time_us,      \* engine -> Nat
    stats,                \* engine -> counters
    global_spike_buffer,  \* coordinator's buffer, Seq(Spike)
    rpc,                  \* router position: "copy" | "clear" | "distribute"
    r_idx,                \* engine the routing loop serves next
    r_spikes,             \* the list copied by get_outgoing_spikes
    fires,                \* history: Seq of fires [e, n, t]; a spike's uid is its index
    delivered,            \* history: engine -> Seq(uid) appended to incoming_spikes
    buffered,             \* history: Seq(uid) appended to global_spike_buffer
    last_op,              \* history: the last operation and its arguments
    ninject,              \* history: number of inject_spike calls
    topology,             \* SNNCompiler.topology
    neuron_tables,        \* compile()'s result: Seq of [node_id, entries]
    compiled,             \* compile() has returned or raised
    node_assignments,     \* SNNCompiler.node_assignments: Seq of [node_id, neuron_ids]
    running,              \* engine -> SNNEngine.running
    threads,              \* engine -> live step threads: [test, body] counts
    timestep_us,          \* engine -> SNNEngine.timestep_us
    routing_active,       \* coordinator's spike_routing_active / routing_active
    engines,              \* coordinator's map: (backplane, node) -> engine, 0 if none
    stopped_all,          \* history: stop_all returned and no API call came after
    first_registered,     \* history: key -> the engine first registered under it
    nlife,                \* history: number of start / stop / stop_all calls
    callback,             \* spikes an API thread has queued but not yet passed to spike_callback
    stdp_config,          \* SNNEngineSTDP.stdp_config, the same object in every engine
    spike_history,        \* engine -> local id -> Seq(time): SNNEngineSTDP.spike_history
    routing_threads,      \* live routing-loop threads of the coordinator
    pre_arrivals,         \* history: engine -> local id -> synapse -> Seq(time) of matched spikes
    drain_seen            \* history: loop states the drain of the running step has been in

vars == <<variant, target, node_id, backplane_id, neurons, synapses, incoming_spikes,
          outgoing_spikes, current_time_us, stats, global_spike_buffer,
          rpc, r_idx, r_spikes, fires, delivered, buffered,
          last_op, ninject, topology, neuron_tables, compiled, node_assignments,
          running, threads, timestep_us, routing_active, engines,
          stopped_all, first_registered, nlife, callback,
          stdp_config, spike_history, routing_threads, pre_arrivals, drain_seen>>

\* the engines' and the coordinator's run state
lifecycle == <<running, threads, timestep_us, routing_active, stopped_all, nlife>>

\* the coordinator's engine map
registration == <<engines, first_registered>>

\* -------------------------------------------------------------- networks
Syn(src, w) == [source_neuron_global_id |-> src, weight |-> w]

\* a table entry whose membrane potential is loaded as 2.0 instead of 0.0
NeuronCharged(nid, syns, refr) ==
    [neuron_id |-> nid, membrane_potential |-> 2 * Scale, threshold |-> Scale,
     leak_rate |-> 95, refractory_period_us |-> refr,
     last_spike_time_us |-> 0, synapse_count |-> Len(syns)]

Neuron(nid, syns, refr) ==
    [neuron_id |-> nid, membrane_potential |-> 0, threshold |-> Scale,
     leak_rate |-> 95, refractory_period_us |-> refr,
     last_spike_time_us |-> 0, synapse_count |-> Len(syns)]

\* The loaded cluster.  Engine 1 is node 0 of backplane 0 and holds
\*   neuron 0: input neuron, no synapses
\*   neuron 1: one synapse from 0x000000 (node 0, neuron 0), weight 1.2
\* Engine 2 is node 1 of backplane 1 and holds
\*   neuron 0: one synapse from 0x000000 (node 0, neuron 0), weight 1.2
\* Thresholds are 1.0, leak rates 0.95.
Network ==
    [node |-> <<0, 1>>, backplane |-> <<0, 1>>,
     syn  |-> << <<[id |-> 0, syn |-> <<>>, refr |-> 2000],
                   [id |-> 1, syn |-> <<Syn(0, 120)>>, refr |-> 1000]>>,
                 <<[id |-> 0, syn |-> <<Syn(0, 120)>>, refr |-> 1000]>> >>]

\* local ids of an engine's table, in table order
NeuronOrder(e) == [i \in 1..Len(Network.syn[e]) |-> Network.syn[e][i].id]
NeuronIds(e) == {NeuronOrder(e)[i] : i \in 1..Len(NeuronOrder(e))}
TableEntry(e, n) == CHOOSE t \in {Network.syn[e][i] : i \in 1..Len(Network.syn[e])} : t.id = n
InjectTargets == {<<e, n>> : e \in Engines, n \in {0, 1}} \cap
                 {t \in Engines \X {0, 1} : t[2] \in NeuronIds(t[1])}

\* STDPConfig of snn_engine_stdp; rates and weight bounds in units of 1/Scale
STDPConfig(enabled, rate, tau, w_min, w_max, max_delta_t) ==
    [enabled |-> enabled, learning_rate_plus |-> rate, learning_rate_minus |-> rate,
     tau_plus |-> tau, tau_minus |-> tau, w_min |-> w_min, w_max |-> w_max,
     max_delta_t |-> max_delta_t]

\* stdp_config or STDPConfig(enabled=False): the dataclass defaults
DisabledConfig == STDPConfig(FALSE, 1, 20 * TIMESTEP_US, 0, Scale, 100 * TIMESTEP_US)

\* --------------------------------------------------------------- helpers
Spike(nid, node, bp, ts, val, uid) ==
    [neuron_id |-> nid, source_node |-> node, source_backplane |-> bp,
     timestamp_us |-> ts, value |-> val, uid |-> uid]

\* float product of two fixed-point numbers
Mul(a, b) == (a * b) \div Scale

\* (node << 16) | local, masked to 24 bits; local ids are 16-bit
GlobalId(node, local) == ((node * NODE_SHIFT) + local) % SOURCE_ID_MASK

\* deque(maxlen=N).append
AppendBounded(buf, s) ==
    IF Len(buf) >= GLOBAL_BUFFER_MAXLEN THEN Append(Tail(buf), s)
    ELSE Append(buf, s)

\* The mutable world the handlers thread through their statements.
Cur == [neurons |-> neurons, incoming_spikes |-> incoming_spikes,
        outgoing_spikes |-> outgoing_spikes, stats |-> stats,
        global_spike_buffer |-> global_spike_buffer, fires |-> fires,
        delivered |-> delivered, buffered |-> buffered]

Commit(S) ==
    /\ neurons' = S.neurons
    /\ incoming_spikes' = S.incoming_spikes
    /\ outgoing_spikes' = S.outgoing_spikes
    /\ stats' = S.stats
    /\ global_spike_buffer' = S.global_spike_buffer
    /\ fires' = S.fires
    /\ delivered' = S.delivered
    /\ buffered' = S.buffered

RECURSIVE BroadcastFrom(_, _, _)
BroadcastFrom(S, spike, e) ==
    IF e > NumEngines THEN S
    ELSE BroadcastFrom([S EXCEPT !.incoming_spikes[e] = Append(@, spike),
                                 !.delivered[e] = Append(@, spike.uid)],
                       spike, e + 1)

\* a broadcast that leaves out the engine the spike came from
BroadcastToOthers(S, spike) ==
    [S EXCEPT !.incoming_spikes =
                  [e \in Engines |-> IF node_id[e] = spike.source_node
                                     THEN @[e] ELSE Append(@[e], spike)],
              !.delivered =
                  [e \in Engines |-> IF node_id[e] = spike.source_node
                                     THEN @[e] ELSE Append(@[e], spike.uid)]]

\* for engine in self.engines.values(): engine.incoming_spikes.append(spike)
Broadcast(S, spike) == BroadcastFrom(S, spike, 1)

\* snn_engine.ClusterSNNCoordinator._route_spike
RouteSpike(S, spike) ==
    Broadcast([S EXCEPT !.global_spike_buffer = AppendBounded(@, spike),
                        !.buffered = Append(@, spike.uid)],
              spike)

RECURSIVE RouteAll(_, _)
RouteAll(S, spikes) ==
    IF spikes = <<>> THEN S
    ELSE RouteAll(RouteSpike(S, Head(spikes)), Tail(spikes))

\* a fire that queues its spike and leaves total_spikes_sent alone
FireUncounted(S, e, n, now) ==
    LET uid == Len(S.fires) + 1
        spike == Spike(n, node_id[e], backplane_id[e], now, Scale, uid)
    IN [S EXCEPT !.neurons[e][n].membrane_potential = 0,
                 !.neurons[e][n].last_spike_time_us = now,
                 !.outgoing_spikes[e] = Append(@, spike),
                 !.stats[e].neurons_spiked = @ + 1,
                 !.fires = Append(@, [e |-> e, n |-> n, t |-> now])]

\* The part of a fire both engines share: reset, stamp, enqueue, count.
FireCommon(S, e, n, now) ==
    LET uid == Len(S.fires) + 1
        spike == Spike(n, node_id[e], backplane_id[e], now, Scale, uid)
    IN [S EXCEPT !.neurons[e][n].membrane_potential = 0,
                 !.neurons[e][n].last_spike_time_us = now,
                 !.outgoing_spikes[e] = Append(@, spike),
                 !.stats[e].total_spikes_sent = @ + 1,
                 !.stats[e].neurons_spiked = @ + 1,
                 !.fires = Append(@, [e |-> e, n |-> n, t |-> now])]

\* SNNEngine._generate_spike: the fire, then spike_callback (= _route_spike,
\* set by register_engine) on the spike just queued.
GenerateSpike(S, e, n, now) ==
    LET S1 == FireCommon(S, e, n, now)
    IN RouteSpike(S1, S1.outgoing_spikes[e][Len(S1.outgoing_spikes[e])])

\* SNNEngineSTDP._fire_neuron (STDP disabled)
FireNeuron(S, e, n, now) == FireCommon(S, e, n, now)

\* refractory test of SNNEngine._process_spike
InRefractory(neuron, now) ==
    now - neuron.last_spike_time_us < neuron.refractory_period_us

\* ---- SNNEngine._process_spike
RECURSIVE ApplySynapses(_, _, _, _, _, _, _)
ApplySynapses(S, e, n, syns, gid, spike, now) ==
    IF syns = <<>> THEN S
    ELSE IF Head(syns).source_neuron_global_id = gid
    THEN LET S1 == [S EXCEPT !.neurons[e][n].membrane_potential =
                                 @ + Mul(Head(syns).weight, spike.value)]
         IN IF S1.neurons[e][n].membrane_potential >= S1.neurons[e][n].threshold
            THEN GenerateSpike(S1, e, n, now)       \* fire and break
            ELSE ApplySynapses(S1, e, n, Tail(syns), gid, spike, now)
    ELSE ApplySynapses(S, e, n, Tail(syns), gid, spike, now)

RECURSIVE ProcessTargets(_, _, _, _, _, _)
ProcessTargets(S, e, ids, gid, spike, now) ==
    IF ids = <<>> THEN S
    ELSE LET n == Head(ids)
             S1 == IF InRefractory(S.neurons[e][n], now) THEN S
                   ELSE ApplySynapses(S, e, n, synapses[e][n], gid, spike, now)
         IN ProcessTargets(S1, e, Tail(ids), gid, spike, now)

SpikeGlobalId(spike) == GlobalId(spike.source_node, spike.neuron_id)

ProcessSpikePlain(S, e, spike, now) ==
    ProcessTargets(S, e, NeuronOrder(e), SpikeGlobalId(spike), spike, now)

\* ---- SNNEngineSTDP._process_spike (STDP disabled)
RECURSIVE ApplySynapsesSTDP(_, _, _, _, _, _)
ApplySynapsesSTDP(S, e, n, syns, source_id, spike) ==
    IF syns = <<>> THEN S
    ELSE LET S1 == IF Head(syns).source_neuron_global_id = source_id
                   THEN [S EXCEPT !.neurons[e][n].membrane_potential =
                                      @ + Mul(Head(syns).weight, spike.value)]
                   ELSE S
         IN ApplySynapsesSTDP(S1, e, n, Tail(syns), source_id, spike)

RECURSIVE ProcessTargetsSTDP(_, _, _, _, _)
ProcessTargetsSTDP(S, e, ids, source_id, spike) ==
    IF ids = <<>> THEN S
    ELSE ProcessTargetsSTDP(
             ApplySynapsesSTDP(S, e, Head(ids), synapses[e][Head(ids)], source_id, spike),
             e, Tail(ids), source_id, spike)

\* the id the STDP engine matches synapses against
SourceIdSTDP(spike) == spike.neuron_id

ProcessSpikeSTDP(S, e, spike, now) ==
    LET source_id == SourceIdSTDP(spike)
    IN IF source_id \in DOMAIN S.neurons[e] /\ S.neurons[e][source_id].synapse_count = 0
       THEN FireNeuron(S, e, source_id, now)        \* fire directly and return
       ELSE ProcessTargetsSTDP(S, e, NeuronOrder(e), source_id, spike)

\* ---- leak passes
RECURSIVE LeakPlain(_, _, _)
LeakPlain(S, e, ids) ==
    IF ids = <<>> THEN S
    ELSE LET n == Head(ids)
             v == S.neurons[e][n].membrane_potential
             S1 == IF v > 0
                   THEN [S EXCEPT !.neurons[e][n].membrane_potential =
                                      (v * S.neurons[e][n].leak_rate) \div Scale]
                   ELSE S
         IN LeakPlain(S1, e, Tail(ids))

\* the leak pass of SNNEngineSTDP._simulation_loop fires on a threshold crossing
LeakFires(v, neuron, now) ==
    /\ v >= neuron.threshold
    /\ now - neuron.last_spike_time_us >= neuron.refractory_period_us

RECURSIVE LeakSTDP(_, _, _, _)
LeakSTDP(S, e, ids, now) ==
    IF ids = <<>> THEN S
    ELSE LET n == Head(ids)
             v == S.neurons[e][n].membrane_potential
             lv == (v * S.neurons[e][n].leak_rate) \div Scale
             S1 == IF v > 0
                   THEN LET S2 == [S EXCEPT !.neurons[e][n].membrane_potential = lv]
                        IN IF LeakFires(lv, S2.neurons[e][n], now)
                           THEN FireNeuron(S2, e, n, now)
                           ELSE S2
                   ELSE S
         IN LeakSTDP(S1, e, Tail(ids), now)

\* ---- inject_spike
InjectPlain(S, e, n, value, now) ==
    LET S0 == [S EXCEPT !.stats[e].total_spikes_received = @ + 1]
    IN IF n \notin DOMAIN S0.neurons[e] THEN S0
       ELSE IF synapses[e][n] = <<>>
       THEN GenerateSpike(S0, e, n, now)
       ELSE LET S1 == [S0 EXCEPT !.neurons[e][n].membrane_potential = @ + value]
            IN IF S1.neurons[e][n].membrane_potential >= S1.neurons[e][n].threshold
               THEN GenerateSpike(S1, e, n, now)
               ELSE S1

InjectSTDP(S, e, n, value, now) ==
    [S EXCEPT !.incoming_spikes[e] =
                  Append(@, Spike(n, node_id[e], backplane_id[e], now, value, 0)),
              !.stats[e].total_spikes_received = @ + 1]

\* ---- the drain loop of one step
RECURSIVE DrainPlain(_, _, _)
DrainPlain(S, e, now) ==
    IF S.incoming_spikes[e] = <<>> THEN S
    ELSE DrainPlain(ProcessSpikePlain([S EXCEPT !.incoming_spikes[e] = Tail(@)],
                                      e, Head(S.incoming_spikes[e]), now),
                    e, now)

RECURSIVE DrainSTDP(_, _, _)
DrainSTDP(S, e, now) ==
    IF S.incoming_spikes[e] = <<>> THEN S
    ELSE DrainSTDP(ProcessSpikeSTDP([S EXCEPT !.incoming_spikes[e] = Tail(@)],
                                    e, Head(S.incoming_spikes[e]), now),
                   e, now)

\* SNNEngine._simulation_step after the clock advanced to now
SimulationStepPlain(S, e, now) ==
    LeakPlain(DrainPlain([S EXCEPT !.stats[e].simulation_steps = @ + 1], e, now),
              e, NeuronOrder(e))

\* one iteration of SNNEngineSTDP._simulation_loop after the clock advanced
SimulationStepSTDP(S, e, now) ==
    LeakSTDP(DrainSTDP([S EXCEPT !.stats[e].simulation_steps = @ + 1], e, now),
             e, NeuronOrder(e), now)

\* ============================================================ SNNCompiler
SYNAPSE_CAPACITY == 60         \* slots of a 256-byte neuron entry
WEIGHT_MAX == 255              \* int(weight_float * 255)

NoTopology == [neuron_count |-> 0]

RangeSeq(a, b) == [i \in 1..(b - a + 1) |-> a + i - 1]

Layer(id, type, first, last) ==
    [layer_id |-> id, layer_type |-> type, neuron_ids |-> <<first, last>>,
     threshold |-> Scale, leak_rate |-> 95, refractory_period_us |-> 1000]

\* position of x in seq (list.index): 0-based, the first occurrence
IndexOf(seq, x) ==
    (CHOOSE i \in 1..Len(seq) : seq[i] = x /\ \A j \in 1..(i - 1) : seq[j] # x) - 1

InSeq(seq, x) == \E i \in 1..Len(seq) : seq[i] = x

\* ---- node_assignments: a dict, kept as its items in insertion order
AssignmentIndex(acc, node) ==
    IF \E i \in 1..Len(acc) : acc[i].node_id = node
    THEN CHOOSE i \in 1..Len(acc) : acc[i].node_id = node
    ELSE 0

\* self.node_assignments[node] = ids: a key already present keeps its place
\* and takes the new value
DictSet(acc, node, ids) ==
    IF AssignmentIndex(acc, node) = 0
    THEN Append(acc, [node_id |-> node, neuron_ids |-> ids])
    ELSE [acc EXCEPT ![AssignmentIndex(acc, node)].neuron_ids = ids]

\* ---- _assign_neurons_to_nodes, strategy 'balanced'
\* first loop: each node takes neurons_per_node consecutive ids
RECURSIVE BalancedFirst(_, _, _, _)
BalancedFirst(nodes, per, next_id, acc) ==
    IF nodes = <<>> THEN acc
    ELSE BalancedFirst(Tail(nodes), per, next_id + per,
                       DictSet(acc, Head(nodes), RangeSeq(next_id, next_id + per - 1)))

\* second loop: the remaining ids go round-robin from node index 0
RECURSIVE BalancedRest(_, _, _, _, _)
BalancedRest(acc, nodes, next_id, total, node_idx) ==
    IF next_id >= total THEN acc
    ELSE BalancedRest([acc EXCEPT ![AssignmentIndex(acc, nodes[node_idx + 1])].neuron_ids =
                                      Append(@, next_id)],
                      nodes, next_id + 1, total, (node_idx + 1) % Len(nodes))

\* a balanced assignment that hands the whole remainder to the last node
AssignRemainderToLast(topo) ==
    LET nodes == topo.node_assignment.nodes
        per == topo.neuron_count \div Len(nodes)
        acc == BalancedFirst(nodes, per, 0, <<>>)
    IN [acc EXCEPT ![AssignmentIndex(acc, nodes[Len(nodes)])].neuron_ids =
                       @ \o RangeSeq(Len(nodes) * per, topo.neuron_count - 1)]

AssignBalanced(topo) ==
    LET nodes == topo.node_assignment.nodes
        per == topo.neuron_count \div Len(nodes)
    IN BalancedRest(BalancedFirst(nodes, per, 0, <<>>), nodes,
                    Len(nodes) * per, topo.neuron_count, 0)

\* ---- _assign_neurons_to_nodes, strategy 'layer_based'
RECURSIVE LayerBased(_, _, _, _)
LayerBased(layers, nodes, node_idx, acc) ==
    IF layers = <<>> THEN acc
    ELSE LET node == nodes[(node_idx % Len(nodes)) + 1]
             ids == RangeSeq(Head(layers).neuron_ids[1], Head(layers).neuron_ids[2])
             acc1 == IF AssignmentIndex(acc, node) = 0
                     THEN Append(acc, [node_id |-> node, neuron_ids |-> <<>>])
                     ELSE acc
             k == AssignmentIndex(acc1, node)
         IN LayerBased(Tail(layers), nodes, node_idx + 1,
                       [acc1 EXCEPT ![k].neuron_ids = @ \o ids])

\* node_assignments, as the dict's items in insertion order
AssignNeuronsToNodes(topo) ==
    IF topo.node_assignment.strategy = "balanced"
    THEN AssignBalanced(topo)
    ELSE LayerBased(topo.layers, topo.node_assignment.nodes, 0, <<>>)

\* ---- _find_node_for_neuron: the first node whose list holds global_id
FindNodeForNeuron(assign, global_id) ==
    LET k == CHOOSE i \in 1..Len(assign) :
                 /\ InSeq(assign[i].neuron_ids, global_id)
                 /\ \A j \in 1..(i - 1) : ~InSeq(assign[j].neuron_ids, global_id)
    IN assign[k]

\* ---- _build_neuron_configs
LayerFlags(layer_type) ==
    IF layer_type = "input" THEN 5           \* ACTIVE | INPUT
    ELSE IF layer_type = "output" THEN 9     \* ACTIVE | OUTPUT
    ELSE 1                                   \* ACTIVE

NeuronConfig(assign, layer, global_id) ==
    LET a == FindNodeForNeuron(assign, global_id)
    IN [neuron_id |-> IndexOf(a.neuron_ids, global_id),
        global_id |-> global_id,
        node_id |-> a.node_id,
        flags |-> LayerFlags(layer.layer_type),
        threshold |-> layer.threshold,
        leak_rate |-> layer.leak_rate,
        refractory_period_us |-> layer.refractory_period_us,
        synapses |-> <<>>]

RECURSIVE BuildNeuronConfigs(_, _)
BuildNeuronConfigs(assign, layers) ==
    IF layers = <<>> THEN <<>>
    ELSE LET ids == RangeSeq(Head(layers).neuron_ids[1], Head(layers).neuron_ids[2])
         IN [i \in 1..Len(ids) |-> NeuronConfig(assign, Head(layers), ids[i])]
            \o BuildNeuronConfigs(assign, Tail(layers))

\* ---- _generate_fully_connected
\* max(0.0, min(1.0, weight_float))
Clamp01(weight_float) ==
    IF weight_float < 0 THEN 0
    ELSE IF weight_float > Scale THEN Scale ELSE weight_float

\* weight_float as the generator computes it for one synapse; conn.sample is
\* the value random.gauss / random.uniform returns
InitialWeight(conn) ==
    IF conn.weight_init = "random_normal" THEN Clamp01(conn.sample)
    ELSE IF conn.weight_init = "random_uniform" THEN conn.sample
    ELSE IF conn.weight_init = "constant" THEN conn.weight_value
    ELSE Scale \div 2

\* int(weight_float * 255): truncation toward zero
QuantizeWeight(weight_float) ==
    IF weight_float >= 0 THEN (weight_float * WEIGHT_MAX) \div Scale
    ELSE 0 - (((0 - weight_float) * WEIGHT_MAX) \div Scale)

\* the synapse the generator records for a connection from source_id
GeneratedSynapse(source_id, weight) == <<source_id, weight>>

\* a generator without the capacity test: every candidate is recorded
AddAllSources(syns, sources, weight) ==
    syns \o [i \in 1..Len(sources) |-> GeneratedSynapse(sources[i], weight)]

\* the source loop: a candidate is appended while the target holds fewer
\* than 60 synapses, so the first `room` candidates are taken
AddSources(syns, sources, weight) ==
    LET room == IF Len(syns) < SYNAPSE_CAPACITY THEN SYNAPSE_CAPACITY - Len(syns) ELSE 0
        taken == IF Len(sources) < room THEN Len(sources) ELSE room
    IN syns \o [i \in 1..taken |-> GeneratedSynapse(sources[i], weight)]

LayerById(topo, id) ==
    topo.layers[CHOOSE i \in 1..Len(topo.layers) : topo.layers[i].layer_id = id]

FullyConnected(configs, topo, conn) ==
    LET src == LayerById(topo, conn.source_layer).neuron_ids
        tgt == LayerById(topo, conn.target_layer).neuron_ids
    IN [i \in 1..Len(configs) |->
           IF configs[i].global_id >= tgt[1] /\ configs[i].global_id <= tgt[2]
           THEN [configs[i] EXCEPT !.synapses =
                    AddSources(@, RangeSeq(src[1], src[2]),
                               QuantizeWeight(InitialWeight(conn)))]
           ELSE configs[i]]

RECURSIVE GenerateConnections(_, _, _)
GenerateConnections(configs, topo, conns) ==
    IF conns = <<>> THEN configs
    ELSE GenerateConnections(FullyConnected(configs, topo, Head(conns)), topo, Tail(conns))

\* ---- _pack_neuron_entry
\* [source_id:24][weight:8]
PackSynapse(syn) == ((syn[1] % SOURCE_ID_MASK) * 256) + (syn[2] % 256)

PackNeuronEntry(config) ==
    [neuron_id |-> config.neuron_id,
     flags |-> config.flags,
     membrane_potential |-> 0,
     threshold |-> config.threshold,
     last_spike_time_us |-> 0,
     synapse_count |-> Len(config.synapses),
     synapse_capacity |-> SYNAPSE_CAPACITY,
     leak_rate |-> config.leak_rate,
     refractory_period_us |-> config.refractory_period_us,
     slots |-> [i \in 1..SYNAPSE_CAPACITY |->
                   IF i <= Len(config.synapses) THEN PackSynapse(config.synapses[i])
                   ELSE 0]]

\* list.sort(key=neuron_id) is stable: the place of configs[i] is behind
\* every config with a smaller local id and every earlier one with the same
SortedPosition(configs, i) ==
    Cardinality({j \in 1..Len(configs) :
                    \/ configs[j].neuron_id < configs[i].neuron_id
                    \/ (configs[j].neuron_id = configs[i].neuron_id /\ j < i)}) + 1

SortByNeuronId(configs) ==
    [k \in 1..Len(configs) |->
        configs[CHOOSE i \in 1..Len(configs) : SortedPosition(configs, i) = k]]

\* the configs of one node, sorted by local id
NodeNeurons(configs, node) ==
    SortByNeuronId(SelectSeq(configs, LAMBDA c : c.node_id = node))

\* ---- _compile_neuron_tables
CompileNeuronTables(assign, configs) ==
    [k \in 1..Len(assign) |->
        LET node_neurons == NodeNeurons(configs, assign[k].node_id)
        IN [node_id |-> assign[k].node_id,
            entries |-> [i \in 1..Len(node_neurons) |-> PackNeuronEntry(node_neurons[i])]]]

\* ---- compile()
CompiledConfigs(topo) ==
    LET assign == AssignNeuronsToNodes(topo)
    IN GenerateConnections(BuildNeuronConfigs(assign, topo.layers), topo, topo.connections)

CompileTopology(topo) ==
    CompileNeuronTables(AssignNeuronsToNodes(topo), CompiledConfigs(topo))

\* ---- the exception compile() ends with, if any
NoError == "none"

LayerIds(layer) == RangeSeq(layer.neuron_ids[1], layer.neuron_ids[2])

Assigned(assign, global_id) ==
    \E i \in 1..Len(assign) : InSeq(assign[i].neuron_ids, global_id)

HasLayer(topo, id) == \E i \in 1..Len(topo.layers) : topo.layers[i].layer_id = id

CompileRaises(topo) ==
    IF /\ topo.node_assignment.nodes = <<>>
       /\ (topo.node_assignment.strategy = "balanced" \/ topo.layers # <<>>)
    THEN "ZeroDivisionError"            \* total_neurons // len(nodes), % len(nodes)
    ELSE IF \E i \in 1..Len(topo.layers) : \E k \in 1..Len(LayerIds(topo.layers[i])) :
                ~Assigned(AssignNeuronsToNodes(topo), LayerIds(topo.layers[i])[k])
    THEN "ValueError"                   \* _find_node_for_neuron
    ELSE IF \E i \in 1..Len(topo.connections) :
                \/ ~HasLayer(topo, topo.connections[i].source_layer)
                \/ ~HasLayer(topo, topo.connections[i].target_layer)
    THEN "StopIteration"                \* next(l for l in layers if ...)
    ELSE NoError

\* ------------------------------------------------------------------ Init
\* self.stats; the last three counters exist in SNNEngineSTDP only
ZeroStats == [total_spikes_received |-> 0, total_spikes_sent |-> 0,
              neurons_spiked |-> 0, simulation_steps |-> 0,
              stdp_updates |-> 0, weight_increases |-> 0, weight_decreases |-> 0]

\* the (backplane_id, node_id) keys a client may address
Keys == {0, 1} \X {0, 1}

\* the engine of the loaded cluster registered under key k, 0 if there is none
EngineAt(k) ==
    IF \E e \in Engines : Network.backplane[e] = k[1] /\ Network.node[e] = k[2]
    THEN CHOOSE e \in Engines : Network.backplane[e] = k[1] /\ Network.node[e] = k[2]
    ELSE 0

\* the tables of Network, loaded
InitTables ==
    /\ synapses = [e \in Engines |-> [n \in NeuronIds(e) |-> TableEntry(e, n).syn]]
    /\ neurons = [e \in Engines |->
                     [n \in NeuronIds(e) |->
                         Neuron(n, TableEntry(e, n).syn, TableEntry(e, n).refr)]]
    /\ spike_history = [e \in Engines |-> [n \in NeuronIds(e) |-> <<>>]]
    /\ pre_arrivals = [e \in Engines |->
                          [n \in NeuronIds(e) |->
                              [j \in 1..Len(TableEntry(e, n).syn) |-> <<>>]]]

\* the engines and the coordinator after register_engine and start_all
InitRuntime ==
    /\ node_id = Network.node
    /\ backplane_id = Network.backplane
    /\ incoming_spikes = [e \in Engines |-> <<>>]
    /\ outgoing_spikes = [e \in Engines |-> <<>>]
    /\ current_time_us = [e \in Engines |-> 0]
    /\ stats = [e \in Engines |-> ZeroStats]
    /\ global_spike_buffer = <<>>
    /\ rpc = "copy"
    /\ r_idx = 1
    /\ r_spikes = <<>>
    /\ fires = <<>>
    /\ delivered = [e \in Engines |-> <<>>]
    /\ buffered = <<>>
    /\ last_op = [op |-> "init"]
    /\ ninject = 0
    /\ running = [e \in Engines |-> TRUE]
    /\ threads = [e \in Engines |-> [test |-> 1, body |-> 0]]
    /\ timestep_us = [e \in Engines |-> TIMESTEP_US]
    /\ routing_active = TRUE
    /\ engines = [k \in Keys |-> EngineAt(k)]
    /\ stopped_all = FALSE
    /\ first_registered = [k \in Keys |-> EngineAt(k)]
    /\ nlife = 0
    /\ callback = <<>>
    /\ routing_threads = 1
    /\ drain_seen = {}

\* The cluster after load, register_engine and start_all.
InitCluster == InitTables /\ InitRuntime /\ stdp_config = DisabledConfig

Init ==
    /\ variant \in Variants
    /\ target \in InjectTargets
    /\ InitCluster
    /\ topology = NoTopology
    /\ neuron_tables = <<>>
    /\ compiled = FALSE
    /\ node_assignments = <<>>

\* the STDP state and the histories kept for the learning and drain claims
learning == <<stdp_config, spike_history, pre_arrivals, drain_seen>>

static == <<variant, node_id, backplane_id, synapses, target,
           topology, neuron_tables, compiled, node_assignments, learning>>

\* --------------------------------------------------------------- actions
\* inject_spike(neuron_id, value) on engine e, from an API thread
Inject(e, n, value) ==
    /\ ninject < MaxInject
    /\ Commit(IF variant = "plain"
              THEN InjectPlain(Cur, e, n, value, current_time_us[e])
              ELSE InjectSTDP(Cur, e, n, value, current_time_us[e]))
    /\ ninject' = ninject + 1
    /\ stopped_all' = FALSE
    /\ last_op' = [op |-> "inject", e |-> e, n |-> n, value |-> value]
    /\ UNCHANGED <<static, registration, callback, routing_threads, running, threads, timestep_us, routing_active,
                   nlife, current_time_us, rpc, r_idx, r_spikes>>

\* one iteration of the engine's step loop: advance the clock, drain the
\* incoming queue, leak
StepBody(e) ==
    LET now == current_time_us[e] + timestep_us[e]
    IN /\ current_time_us' = [current_time_us EXCEPT ![e] = now]
       /\ Commit(IF variant = "plain"
                 THEN SimulationStepPlain(Cur, e, now)
                 ELSE SimulationStepSTDP(Cur, e, now))

\* while self.running: a whole iteration of the loop
Step(e) ==
    /\ running[e]
    /\ threads[e].test >= 1
    /\ stats[e].simulation_steps < MaxSteps
    /\ StepBody(e)
    /\ last_op' = [op |-> "step", e |-> e]
    /\ UNCHANGED <<static, lifecycle, registration, callback, routing_threads, rpc, r_idx, r_spikes, ninject>>

NextIdx == IF r_idx = NumEngines THEN 1 ELSE r_idx + 1

\* snn_engine routing loop: spikes = list(engine.outgoing_spikes)
RouterCopy ==
    /\ variant = "plain"
    /\ rpc = "copy"
    /\ r_idx = 1 => routing_active
    /\ r_spikes' = outgoing_spikes[r_idx]
    /\ rpc' = "clear"
    /\ last_op' = [op |-> "copy", e |-> r_idx]
    /\ UNCHANGED <<static, lifecycle, registration, callback, routing_threads, neurons, incoming_spikes, outgoing_spikes,
                   current_time_us, stats, global_spike_buffer, r_idx,
                   fires, delivered, buffered, ninject>>

\* snn_engine routing loop: outgoing_spikes.clear(), then _route_spike on each
RouterClearRoute ==
    /\ variant = "plain"
    /\ rpc = "clear"
    /\ Commit(RouteAll([Cur EXCEPT !.outgoing_spikes[r_idx] = <<>>], r_spikes))
    /\ r_spikes' = <<>>
    /\ r_idx' = NextIdx
    /\ rpc' = "copy"
    /\ last_op' = [op |-> "route", e |-> r_idx]
    /\ UNCHANGED <<static, lifecycle, registration, callback, routing_threads, current_time_us, ninject>>

\* snn_engine_stdp routing loop: drain one engine into the global buffer
RouterCollect ==
    /\ variant = "stdp"
    /\ rpc = "copy"
    /\ r_idx = 1 => routing_active
    /\ global_spike_buffer' = global_spike_buffer \o outgoing_spikes[r_idx]
    /\ buffered' = buffered \o [i \in 1..Len(outgoing_spikes[r_idx]) |->
                                   outgoing_spikes[r_idx][i].uid]
    /\ outgoing_spikes' = [outgoing_spikes EXCEPT ![r_idx] = <<>>]
    /\ IF r_idx = NumEngines
       THEN rpc' = "distribute" /\ r_idx' = r_idx
       ELSE rpc' = "copy" /\ r_idx' = r_idx + 1
    /\ last_op' = [op |-> "collect", e |-> r_idx]
    /\ UNCHANGED <<static, lifecycle, registration, callback, routing_threads, neurons, incoming_spikes, current_time_us, stats,
                   r_spikes, fires, delivered, ninject>>

RECURSIVE BroadcastAll(_, _)
BroadcastAll(S, spikes) ==
    IF spikes = <<>> THEN S
    ELSE BroadcastAll(Broadcast(S, Head(spikes)), Tail(spikes))

\* snn_engine_stdp routing loop: pop the global buffer, send to every engine
RouterDistribute ==
    /\ variant = "stdp"
    /\ rpc = "distribute"
    /\ Commit(BroadcastAll([Cur EXCEPT !.global_spike_buffer = <<>>],
                           global_spike_buffer))
    /\ r_idx' = 1
    /\ rpc' = "copy"
    /\ last_op' = [op |-> "distribute"]
    /\ UNCHANGED <<static, lifecycle, registration, callback, routing_threads, current_time_us, r_spikes, ninject>>

Next ==
    \/ \E v \in InjectValues : Inject(target[1], target[2], v)
    \/ \E e \in Engines : Step(e)
    \/ RouterCopy
    \/ RouterClearRoute
    \/ RouterCollect
    \/ RouterDistribute

Spec == Init /\ [][Next]_vars

TypeOK ==
    /\ variant \in Variants
    /\ rpc \in {"copy", "clear", "distribute"}
    /\ r_idx \in Engines

\* ================================================================ claims
Count(seq, x) == Cardinality({i \in 1..Len(seq) : seq[i] = x})

\* simulated times at which neuron n of engine e fired, oldest first
FireTimes(e, n) ==
    LET fs == SelectSeq(fires, LAMBDA f : f.e = e /\ f.n = n)
    IN [i \in 1..Len(fs) |-> fs[i].t]

HasSynapseFrom(e, n, gid) ==
    \E i \in 1..Len(synapses[e][n]) : synapses[e][n][i].source_neuron_global_id = gid

\* the world before and after the engine's next step processes the head of
\* its incoming queue (the step runs at current_time_us + timestep_us)
BeforeHead(e) == [Cur EXCEPT !.incoming_spikes[e] = Tail(@)]

AfterHead(e) ==
    IF variant = "plain"
    THEN ProcessSpikePlain(BeforeHead(e), e, Head(incoming_spikes[e]),
                           current_time_us[e] + TIMESTEP_US)
    ELSE ProcessSpikeSTDP(BeforeHead(e), e, Head(incoming_spikes[e]),
                          current_time_us[e] + TIMESTEP_US)

\* C1: any two consecutive fires of one neuron are at least
\* refractory_period_us apart, in both engine variants.
C1_RefractoryRespected ==
    \A e \in Engines : \A n \in NeuronIds(e) :
        LET ts == FireTimes(e, n)
        IN \A i \in 1..(Len(ts) - 1) :
              ts[i + 1] - ts[i] >= neurons[e][n].refractory_period_us

\* C2: in the snn_engine coordinator every fired spike has been appended
\* exactly once to global_spike_buffer and exactly once to every engine's
\* incoming queue.
C2_RoutedExactlyOnce ==
    variant = "plain" =>
        \A uid \in 1..Len(fires) :
            /\ Count(buffered, uid) = 1
            /\ \A e \in Engines : Count(delivered[e], uid) = 1

\* C3: in SNNEngineSTDP a routed spike whose global source id matches no
\* local synapse changes no neuron and queues nothing; so an input neuron
\* fires at most once per injection made into it.
C3_UnmatchedSpikeInert ==
    variant = "stdp" =>
        /\ \A e \in Engines :
              (/\ incoming_spikes[e] # <<>>
               /\ Head(incoming_spikes[e]).uid > 0
               /\ \A n \in NeuronIds(e) :
                     ~HasSynapseFrom(e, n, SpikeGlobalId(Head(incoming_spikes[e]))))
              => /\ AfterHead(e).neurons[e] = neurons[e]
                 /\ AfterHead(e).outgoing_spikes[e] = outgoing_spikes[e]
        /\ \A e \in Engines : \A n \in NeuronIds(e) :
              synapses[e][n] = <<>> =>
                  Len(FireTimes(e, n)) <= (IF target = <<e, n>> THEN ninject ELSE 0)

\* uids of the spikes neuron n of engine e has fired
UidsOf(e, n) == {u \in 1..Len(fires) : fires[u].e = e /\ fires[u].n = n}

\* engine e has taken a copy of one of the spikes in uids out of its
\* incoming queue, and holds no further copy
Drained(e, uids) ==
    /\ \E i \in 1..Len(delivered[e]) : delivered[e][i] \in uids
    /\ \A i \in 1..Len(incoming_spikes[e]) : incoming_spikes[e][i].uid \notin uids

\* C4: feed-forward on node 0 (neuron 1 listens to 0x000000 with weight
\* 1.2 >= threshold 1.0): once engine 1 has processed the routed copies of
\* neuron 0's spike, neuron 1 has fired.
C4_FeedForwardFires ==
    (target = <<1, 0>> /\ Drained(1, UidsOf(1, 0))) => FireTimes(1, 1) # <<>>

\* C6: a routed spike from (source_node, neuron_id) changes the membrane
\* potential only of neurons holding a synapse whose source id is
\* ((source_node << 16) | neuron_id) & 0xFFFFFF, in both engine variants.
C6_MatchByGlobalId ==
    \A e \in Engines :
        (incoming_spikes[e] # <<>> /\ Head(incoming_spikes[e]).uid > 0) =>
            \A n \in NeuronIds(e) :
                AfterHead(e).neurons[e][n].membrane_potential
                        # neurons[e][n].membrane_potential
                    => HasSynapseFrom(e, n, SpikeGlobalId(Head(incoming_spikes[e])))

\* the injected spikes engine e has not yet processed (SNNEngineSTDP queues them)
PendingInjections(e) ==
    Cardinality({i \in 1..Len(incoming_spikes[e]) : incoming_spikes[e][i].uid = 0})

\* C7: one inject_spike into a neuron without synapses yields exactly one
\* spike of that neuron once the injection has been processed, and no second.
C7_OneInjectionOneSpike ==
    (/\ ninject = 1
     /\ synapses[target[1]][target[2]] = <<>>
     /\ PendingInjections(target[1]) = 0)
    => Len(FireTimes(target[1], target[2])) = 1

\* what inject_spike(n, value) must have done to engine e's neurons in S1:
\* value added to neuron n (or n fired, when that reaches the threshold),
\* every other potential as before
AddedValue(S1, e, n, value) ==
    LET v == neurons[e][n].membrane_potential + value
    IN /\ \/ S1.neurons[e][n].membrane_potential = v
          \/ /\ v >= neurons[e][n].threshold
             /\ Len(S1.fires) = Len(fires) + 1
             /\ S1.fires[Len(S1.fires)].n = n
       /\ \A m \in NeuronIds(e) \ {n} :
             S1.neurons[e][m].membrane_potential = neurons[e][m].membrane_potential

\* C8: inject_spike(n, value) into a neuron with synapses adds value to its
\* membrane potential (or fires it when that reaches the threshold) and
\* changes no other neuron's potential.  SNNEngine applies the injection in
\* the call, SNNEngineSTDP when its step takes the queued spike.
C8_InjectAddsValue ==
    /\ variant = "plain" =>
          \A value \in InjectValues :
              synapses[target[1]][target[2]] # <<>> =>
                  AddedValue(InjectPlain(Cur, target[1], target[2], value,
                                         current_time_us[target[1]]),
                             target[1], target[2], value)
    /\ variant = "stdp" =>
          \A e \in Engines :
              (/\ incoming_spikes[e] # <<>>
               /\ Head(incoming_spikes[e]).uid = 0
               /\ synapses[e][Head(incoming_spikes[e]).neuron_id] # <<>>)
              => AddedValue(AfterHead(e), e, Head(incoming_spikes[e]).neuron_id,
                            Head(incoming_spikes[e]).value)

\* ------------------------------------------------------- routing liveness
\* The routing loop is a thread of its own that never blocks: each of its
\* statements is eventually executed.
RouterFairness ==
    /\ WF_vars(RouterCopy)
    /\ WF_vars(RouterClearRoute)
    /\ WF_vars(RouterCollect)
    /\ WF_vars(RouterDistribute)

FairSpec == Spec /\ RouterFairness

AllDelivered ==
    \A u \in 1..Len(fires) : \A e \in Engines : Count(delivered[e], u) >= 1

\* C9: every spike appended to an engine's outgoing_spikes (every fire) is
\* eventually appended to the incoming_spikes of every registered engine,
\* the producer included: again and again every spike fired so far has
\* reached every engine.
C9_EverySpikeDelivered == []<>AllDelivered

\* a spike waited in an outgoing queue of the STDP coordinator, or came from
\* the producer's own queue in SNNEngine's, and has reached both engines
C9_Witness ==
    /\ fires # <<>>
    /\ last_op.op \in {"distribute", "route"}
    /\ \A e \in Engines : Count(delivered[e], 1) >= 1

\* --------------------------------------------------------- quiescence
\* The cluster when no client ever calls inject_spike.
NextQuiet ==
    \/ \E e \in Engines : Step(e)
    \/ RouterCopy
    \/ RouterClearRoute
    \/ RouterCollect
    \/ RouterDistribute

SpecQuiet == Init /\ [][NextQuiet]_vars

\* C10: from a freshly loaded network (all potentials 0) and without any
\* inject_spike no neuron ever fires: queues and the global buffer stay
\* empty and total_spikes_sent stays 0.
C10_Quiescent ==
    /\ fires = <<>>
    /\ global_spike_buffer = <<>>
    /\ \A e \in Engines :
          /\ incoming_spikes[e] = <<>>
          /\ outgoing_spikes[e] = <<>>
          /\ stats[e].total_spikes_sent = 0
          /\ stats[e].neurons_spiked = 0

\* both engines have stepped twice and the routing loop has gone round
C10_Witness ==
    /\ \A e \in Engines : stats[e].simulation_steps >= 2
    /\ last_op.op \in {"distribute", "route"}
    /\ last_op.op = "route" => last_op.e = NumEngines

\* ============================================================ compile runs
MaxNeurons == 5        \* largest neuron_count of a compiled topology

NodeLists == {<<0>>, <<0, 1>>, <<1, 0>>, <<2, 5>>, <<0, 1, 2>>}

\* An input layer 0..k-1 fully connected to an output layer k..n-1
Topologies ==
    {[neuron_count |-> n,
      layers |-> <<Layer(0, "input", 0, k - 1), Layer(1, "output", k, n - 1)>>,
      connections |-> <<[source_layer |-> 0, target_layer |-> 1,
                         connection_type |-> "fully_connected",
                         weight_init |-> "constant", weight_value |-> 50]>>,
      node_assignment |-> [strategy |-> st, nodes |-> nodes]] :
        n \in 2..MaxNeurons, k \in 1..(MaxNeurons - 1),
        st \in {"balanced", "layer_based"}, nodes \in NodeLists}

InitCompile ==
    /\ variant = "plain"
    /\ target = <<1, 0>>
    /\ InitCluster
    /\ topology \in {t \in Topologies : t.layers[2].neuron_ids[1] < t.neuron_count}
    /\ neuron_tables = <<>>
    /\ compiled = FALSE
    /\ node_assignments = <<>>

\* SNNCompiler(topology).compile()
Compile ==
    /\ ~compiled
    /\ node_assignments' = IF CompileRaises(topology) = "ZeroDivisionError" THEN <<>>
                           ELSE AssignNeuronsToNodes(topology)
    /\ neuron_tables' = IF CompileRaises(topology) = NoError
                        THEN CompileTopology(topology) ELSE <<>>
    /\ compiled' = TRUE
    /\ last_op' = [op |-> "compile", raised |-> CompileRaises(topology)]
    /\ UNCHANGED <<variant, target, node_id, backplane_id, neurons, synapses,
                   incoming_spikes, outgoing_spikes, current_time_us, stats,
                   global_spike_buffer, rpc, r_idx, r_spikes, fires, delivered,
                   buffered, ninject, topology, lifecycle, registration, callback,
                   routing_threads, learning>>

SpecCompile == InitCompile /\ [][Compile]_vars

\* the 24-bit source id of a packed synapse slot
SlotSource(slot) == (slot \div 256) % SOURCE_ID_MASK

\* the global id under which a fire of topology neuron g is seen by the
\* engines: (node_id << 16) | local_id of its compiled entry
EmittedGlobalId(topo, g) ==
    LET a == FindNodeForNeuron(AssignNeuronsToNodes(topo), g)
    IN GlobalId(a.node_id, IndexOf(a.neuron_ids, g))

NodesUsed(topo) ==
    LET assign == AssignNeuronsToNodes(topo)
    IN {assign[k].node_id : k \in {i \in 1..Len(assign) : assign[i].neuron_ids # <<>>}}

\* C5: in a topology compiled over two or more nodes, the source id packed
\* into the i-th slot of a target neuron is (node_id << 16) | local_id of
\* the i-th presynaptic neuron of its connection.
C5_SlotSourceIsNodeLocal ==
    (compiled /\ Cardinality(NodesUsed(topology)) >= 2) =>
        LET src == topology.layers[1].neuron_ids
            tgt == topology.layers[2].neuron_ids
        IN \A g \in tgt[1]..tgt[2] :
              LET a == FindNodeForNeuron(AssignNeuronsToNodes(topology), g)
                  table == neuron_tables[CHOOSE k \in 1..Len(neuron_tables) :
                                             neuron_tables[k].node_id = a.node_id]
                  entry == table.entries[IndexOf(a.neuron_ids, g) + 1]
              IN \A i \in 1..entry.synapse_count :
                    SlotSource(entry.slots[i]) = EmittedGlobalId(topology, src[1] + i - 1)

\* ====================================================== start and stop
MaxLife == 2           \* start / stop / stop_all calls over a run
MaxLifeInject == 1     \* inject_spike calls over a run with starts and stops
MaxLifeSteps == 1      \* steps an engine completes before no further one is entered

\* the timestep_us argument of SNNEngine.start; SNNEngineSTDP.start takes none
StartArgs == IF variant = "plain" THEN {2 * TIMESTEP_US} ELSE {TIMESTEP_US}

\* a start that does not look at the running flag
StartUnguarded(e) == FALSE

\* if self.running: return
AlreadyRunning(e) == running[e]

\* start(timestep_us) of SNNEngine, start() of SNNEngineSTDP
Start(e, ts) ==
    /\ nlife < MaxLife
    /\ IF AlreadyRunning(e)
       THEN UNCHANGED <<running, threads, timestep_us, current_time_us>>
       ELSE /\ timestep_us' = IF variant = "plain"
                              THEN [timestep_us EXCEPT ![e] = ts]
                              ELSE timestep_us
            /\ running' = [running EXCEPT ![e] = TRUE]
            /\ current_time_us' = [current_time_us EXCEPT ![e] = 0]
            /\ threads' = [threads EXCEPT ![e].test = @ + 1]
    /\ nlife' = nlife + 1
    /\ stopped_all' = FALSE
    /\ last_op' = [op |-> "start", e |-> e, ts |-> ts, was_running |-> running[e]]
    /\ UNCHANGED <<static, registration, callback, routing_threads, routing_active, neurons, incoming_spikes,
                   outgoing_spikes, stats, global_spike_buffer, rpc, r_idx, r_spikes,
                   fires, delivered, buffered, ninject>>

\* The step threads of engine e once stop() has cleared the flag and its
\* bounded join has returned: a thread at the loop test has seen the flag and
\* is gone, or the join timed out on a thread that is still inside a step.
StopOutcomes(e) ==
    {[threads[e] EXCEPT !.test = @ - 1] : x \in {1} \cap 1..threads[e].test}
    \cup {threads[e] : x \in {1} \cap 1..threads[e].body}
    \cup {threads[e] : x \in {1} \cap (1..(1 - threads[e].test - threads[e].body))}

\* SNNEngine.stop / SNNEngineSTDP.stop
Stop(e) ==
    /\ nlife < MaxLife
    /\ running' = [running EXCEPT ![e] = FALSE]
    /\ \E th \in StopOutcomes(e) : threads' = [threads EXCEPT ![e] = th]
    /\ nlife' = nlife + 1
    /\ stopped_all' = FALSE
    /\ last_op' = [op |-> "stop", e |-> e]
    /\ UNCHANGED <<static, registration, callback, routing_threads, routing_active, timestep_us, current_time_us,
                   neurons, incoming_spikes, outgoing_spikes, stats,
                   global_spike_buffer, rpc, r_idx, r_spikes, fires, delivered,
                   buffered, ninject>>

\* self.engines.values(): a dict iterates in insertion order, and the engines
\* were registered in the order 1, 2, ...
EnginesValues == [i \in 1..NumEngines |-> i]

\* the routing thread is at `while self.routing_active`
RoutingAtTest == rpc = "copy" /\ r_idx = 1

\* routing_thread.join(timeout): a thread at the loop test has seen the
\* cleared flag and is gone; one inside an iteration outlives the join
RoutingJoinOutcome ==
    IF routing_threads >= 1 /\ RoutingAtTest THEN routing_threads - 1
    ELSE routing_threads

\* ClusterSNNCoordinator.stop_all: clear the routing flag, join the routing
\* thread (bounded), then stop every engine, in the order of
\* `for engine in self.engines.values()`
StopAll ==
    /\ nlife < MaxLife
    /\ routing_active' = FALSE
    /\ running' = [e \in Engines |-> FALSE]
    /\ \E f \in [Engines -> UNION {StopOutcomes(e) : e \in Engines}] :
          /\ \A e \in Engines : f[e] \in StopOutcomes(e)
          /\ threads' = f
    /\ nlife' = nlife + 1
    /\ stopped_all' = TRUE
    /\ routing_threads' = RoutingJoinOutcome
    /\ last_op' = [op |-> "stop_all", order |-> EnginesValues]
    /\ UNCHANGED <<static, registration, callback, timestep_us, current_time_us,
                   neurons, incoming_spikes, outgoing_spikes, stats,
                   global_spike_buffer, rpc, r_idx, r_spikes, fires, delivered,
                   buffered, ninject>>

\* a step thread passes `while self.running` and enters the loop body
EnterStep(e) ==
    /\ running[e]
    /\ threads[e].test >= 1
    /\ stats[e].simulation_steps < MaxLifeSteps
    /\ threads' = [threads EXCEPT ![e] = [test |-> @.test - 1, body |-> @.body + 1]]
    /\ last_op' = [op |-> "enter", e |-> e]
    /\ UNCHANGED <<static, registration, callback, routing_threads, running, timestep_us, routing_active,
                   stopped_all, nlife, current_time_us, neurons, incoming_spikes,
                   outgoing_spikes, stats, global_spike_buffer, rpc, r_idx, r_spikes,
                   fires, delivered, buffered, ninject>>

\* the loop body of a step thread, up to its next loop test
FinishStep(e) ==
    /\ threads[e].body >= 1
    /\ StepBody(e)
    /\ threads' = [threads EXCEPT ![e] = [test |-> @.test + 1, body |-> @.body - 1]]
    /\ last_op' = [op |-> "step", e |-> e]
    /\ UNCHANGED <<static, registration, callback, routing_threads, running, timestep_us, routing_active,
                   stopped_all, nlife, rpc, r_idx, r_spikes, ninject>>

\* a step thread finds self.running False at the loop test and ends
ThreadExit(e) ==
    /\ ~running[e]
    /\ threads[e].test >= 1
    /\ threads' = [threads EXCEPT ![e].test = @ - 1]
    /\ last_op' = [op |-> "exit", e |-> e]
    /\ UNCHANGED <<static, registration, callback, routing_threads, running, timestep_us, routing_active,
                   stopped_all, nlife, current_time_us, neurons, incoming_spikes,
                   outgoing_spikes, stats, global_spike_buffer, rpc, r_idx, r_spikes,
                   fires, delivered, buffered, ninject>>

NextLife ==
    \/ \E v \in InjectValues : ninject < MaxLifeInject /\ Inject(target[1], target[2], v)
    \/ \E e \in Engines : EnterStep(e)
    \/ \E e \in Engines : FinishStep(e)
    \/ \E e \in Engines : ThreadExit(e)
    \/ \E e \in Engines : \E ts \in StartArgs : Start(e, ts)
    \/ \E e \in Engines : Stop(e)
    \/ StopAll
    \/ RouterCopy
    \/ RouterClearRoute
    \/ RouterCollect
    \/ RouterDistribute

\* the client stimulates the input neuron of engine 1
InitLife == Init /\ target = <<1, 0>>

SpecLife == InitLife /\ [][NextLife]_vars

\* C11: an engine's current_time_us never decreases, whatever the sequence of
\* start, steps, inject_spike, stop and start again.
C11_TimeMonotonic ==
    [][\A e \in Engines : current_time_us'[e] >= current_time_us[e]]_vars

\* C12: every neuron's last_spike_time_us is at most its engine's
\* current_time_us, also after the engine was stopped and started again.
C12_LastSpikeNotInFuture ==
    \A e \in Engines : \A n \in NeuronIds(e) :
        neurons[e][n].last_spike_time_us <= current_time_us[e]

\* ------------------------------------------------ draining outgoing_spikes
\* how often get_outgoing_spikes has returned spike u to the routing loop:
\* the _route_spike calls on u, less the one made by spike_callback at the fire
TimesReturned(u) == Count(buffered, u) - 1

InOutgoing(u) ==
    \E e \in Engines : \E i \in 1..Len(outgoing_spikes[e]) : outgoing_spikes[e][i].uid = u

\* C13: SNNEngine.get_outgoing_spikes drains atomically: a spike appended to
\* outgoing_spikes is returned by exactly one drain call; it is never
\* returned twice, and once it has left the queue it has been returned.
C13_DrainAtomic ==
    variant = "plain" =>
        \A u \in 1..Len(fires) :
            /\ TimesReturned(u) <= 1
            /\ ~InOutgoing(u) => TimesReturned(u) = 1

\* ------------------------------------------------- who writes neuron state
\* C14: membrane_potential and last_spike_time_us are written only by the
\* owning engine's step task: a step of the cluster that is an inject_spike
\* call or a move of the routing loop leaves every neuron as it was.
C14_OnlyStepTaskWritesNeurons ==
    [][last_op'.op # "step" => neurons' = neurons]_vars

\* -------------------------------------------------------- after stop_all
\* C15: once stop_all has returned, and as long as no API call follows, no
\* engine steps and the routing loop moves nothing: queues, neuron state,
\* counters, clocks and the global buffer stay as they are.
C15_NoEffectAfterStopAll ==
    [][(stopped_all /\ stopped_all') =>
          UNCHANGED <<neurons, incoming_spikes, outgoing_spikes, stats,
                      global_spike_buffer, current_time_us>>]_vars

\* ------------------------------------------------------ start on a running engine
\* C16: start on an engine that is already running changes nothing: no second
\* step thread, and running, timestep_us, current_time_us and all engine
\* state keep their values.
C16_StartIdempotent ==
    [][(nlife' # nlife /\ last_op'.op = "start" /\ running[last_op'.e]) =>
          UNCHANGED <<running, threads, timestep_us, current_time_us, neurons,
                      incoming_spikes, outgoing_spikes, stats,
                      global_spike_buffer>>]_vars

\* start(2000) was called on a running SNNEngine whose clock had advanced
\* under the timestep 1000
C16_Witness ==
    /\ last_op.op = "start"
    /\ last_op.was_running
    /\ last_op.ts # timestep_us[last_op.e]
    /\ current_time_us[last_op.e] > 0
    /\ threads[last_op.e].test + threads[last_op.e].body = 1

\* ========================================================= register_engine
MaxFresh == 2          \* engines constructed after the cluster was loaded

\* A fresh engine is named by its number and the key it was constructed with.
FreshEngines == (NumEngines + 1)..(NumEngines + MaxFresh)

\* what a call hands back: None when the method has no return statement,
\* else the returned value
None == <<>>
Returned(v) == <<v>>

\* key = (engine.backplane_id, engine.node_id)
EngineKey(e) == <<backplane_id[e], node_id[e]>>

\* ClusterSNNCoordinator.register_engine(engine), engine o constructed with key k:
\* self.engines[key] = engine; returns None
Register(o, k) ==
    /\ o \in Engines => k = EngineKey(o)
    /\ engines' = [engines EXCEPT ![k] = o]
    /\ first_registered' = IF first_registered[k] = 0
                           THEN [first_registered EXCEPT ![k] = o]
                           ELSE first_registered
    /\ last_op' = [op |-> "register", o |-> o, k |-> k, previous |-> engines[k],
                   ret |-> None]
    /\ UNCHANGED <<static, lifecycle, neurons, incoming_spikes, outgoing_spikes,
                   current_time_us, stats, global_spike_buffer, rpc, r_idx, r_spikes,
                   fires, delivered, buffered, ninject, callback, routing_threads>>

NextRegister == \E o \in Engines \cup FreshEngines : \E k \in Keys : Register(o, k)

SpecRegister == Init /\ [][NextRegister]_vars

\* C17: registering under a key that is already taken fails and leaves the
\* engine registered first in the coordinator's map: the map is never
\* silently overwritten.
C17_DuplicateRegistrationFails ==
    \A k \in Keys : first_registered[k] # 0 => engines[k] = first_registered[k]

\* ================================================ coordinator inject_spike
MaxApiInject == 1      \* coordinator inject_spike calls over a run

\* local ids a client may name; 2 exists on no engine
ApiNeuronIds == {0, 1, 2}

\* the value inject_spike hands back: snn_engine's has no return statement,
\* snn_engine_stdp's returns 1 for a known key and 0 otherwise
InjectResult(e) ==
    IF variant = "plain" THEN None
    ELSE IF e # 0 THEN Returned(1) ELSE Returned(0)

\* ClusterSNNCoordinator.inject_spike addressed to key (bp, node)
CoordInject(bp, node, n, value) ==
    LET e == engines[<<bp, node>>]
    IN /\ ninject < MaxApiInject
       /\ Commit(IF e = 0 THEN Cur
                 ELSE IF variant = "plain"
                 THEN InjectPlain(Cur, e, n, value, current_time_us[e])
                 ELSE InjectSTDP(Cur, e, n, value, current_time_us[e]))
       /\ ninject' = ninject + 1
       /\ stopped_all' = FALSE
       /\ last_op' = [op |-> "coord_inject", key |-> <<bp, node>>, n |-> n,
                      value |-> value, e |-> e, ret |-> InjectResult(e)]
       /\ UNCHANGED <<static, registration, callback, routing_threads, running, threads, timestep_us,
                      routing_active, nlife, current_time_us, rpc, r_idx, r_spikes>>

NextApi ==
    \/ \E k \in Keys : \E n \in ApiNeuronIds : \E v \in InjectValues :
          CoordInject(k[1], k[2], n, v)
    \/ \E e \in Engines : Step(e)
    \/ RouterCopy
    \/ RouterClearRoute
    \/ RouterCollect
    \/ RouterDistribute

SpecApi == Init /\ [][NextApi]_vars

\* C18: the coordinator's inject_spike returns the number of injections
\* effected: 1 when the addressed engine exists, 0 when the key is unknown.
C18_InjectReturnsCount ==
    last_op.op = "coord_inject" =>
        last_op.ret = IF last_op.e # 0 THEN Returned(1) ELSE Returned(0)

\* the injection of the last step names an unknown key or an unknown local id
UnknownTarget(op) ==
    op.e = 0 \/ op.n \notin NeuronIds(op.e)

\* C19: an injection addressed to an unknown key or to a local id the engine
\* does not hold changes no neuron, queue or counter of any engine.
C19_UnknownTargetNoEffect ==
    [][(ninject' # ninject /\ last_op'.op = "coord_inject" /\ UnknownTarget(last_op')) =>
          UNCHANGED <<neurons, incoming_spikes, outgoing_spikes, stats,
                      global_spike_buffer>>]_vars

\* ------------------------------------------------------ the global buffer
\* the uids held by the global buffer, oldest first
BufferUids == [i \in 1..Len(global_spike_buffer) |-> global_spike_buffer[i].uid]

\* the last k entries of a sequence
LastOf(seq, k) ==
    IF k >= Len(seq) THEN seq ELSE SubSeq(seq, Len(seq) - k + 1, Len(seq))

\* C20: the global buffer holds at most 10,000 entries and always holds the
\* most recently routed spikes, in routing order (oldest evicted first), so
\* that the recent-events feed can read them.
C20_BufferHoldsRecent ==
    /\ Len(global_spike_buffer) <= GLOBAL_BUFFER_MAXLEN
    /\ BufferUids = LastOf(buffered, GLOBAL_BUFFER_MAXLEN)

\* ======================================================= get_recent_spikes
MaxCount == 3          \* largest count passed to get_recent_spikes

\* seq[start:] of a Python list, start any integer
PySliceFrom(seq, start) ==
    LET len == Len(seq)
        from == IF start < 0
                THEN (IF len + start < 0 THEN 0 ELSE len + start)
                ELSE (IF start > len THEN len ELSE start)
    IN SubSeq(seq, from + 1, len)

\* the dict get_recent_spikes builds for one spike
SpikeDict(s) ==
    [neuron_id |-> s.neuron_id, node_id |-> s.source_node,
     backplane_id |-> s.source_backplane, timestamp_us |-> s.timestamp_us,
     value |-> s.value]

SpikeDicts(spikes) == [i \in 1..Len(spikes) |-> SpikeDict(spikes[i])]

\* list(self.global_spike_buffer)[-count:], as dicts
RecentSpikes(buffer, count) == SpikeDicts(PySliceFrom(buffer, 0 - count))

\* snn_engine.ClusterSNNCoordinator.get_recent_spikes(count)
GetRecentSpikes(count) ==
    /\ variant = "plain"
    /\ last_op' = [op |-> "recent", count |-> count,
                   ret |-> RecentSpikes(global_spike_buffer, count)]
    /\ UNCHANGED <<static, lifecycle, registration, callback, routing_threads, neurons, incoming_spikes,
                   outgoing_spikes, current_time_us, stats, global_spike_buffer,
                   rpc, r_idx, r_spikes, fires, delivered, buffered, ninject>>

\* a client stimulates the input neuron of engine 1 and reads the feed while
\* the routing loop runs
InitRecent == Init /\ variant = "plain" /\ target = <<1, 0>>

NextRecent ==
    \/ \E v \in InjectValues : Inject(target[1], target[2], v)
    \/ RouterCopy
    \/ RouterClearRoute
    \/ \E count \in 0..MaxCount : GetRecentSpikes(count)

SpecRecent == InitRecent /\ [][NextRecent]_vars

\* C21: get_recent_spikes(n) returns at most n entries, namely the last
\* min(n, len(buffer)) entries of the global buffer in buffer order; for
\* n = 0 the empty list.
C21_RecentIsLastN ==
    last_op.op = "recent" =>
        /\ Len(last_op.ret) <= last_op.count
        /\ last_op.ret = SpikeDicts(LastOf(global_spike_buffer, last_op.count))

\* ------------------------------------------------ routing conservation
RECURSIVE SumStat(_, _)
\* sum(e.stats[field] for e in self.engines.values()), engines 1..e
SumStat(field, e) ==
    IF e = 0 THEN 0 ELSE stats[e][field] + SumStat(field, e - 1)

\* spikes were sent, every one of them has reached every engine, the routing
\* loop holds nothing and no engine has a spike left to send
AllBroadcast ==
    /\ fires # <<>>
    /\ AllDelivered
    /\ rpc = "copy"
    /\ r_spikes = <<>>
    /\ \A e \in Engines : outgoing_spikes[e] = <<>>

\* no engine has drained its incoming queue yet, so no spike met a
\* refractory neuron
NoRefractoryDrops == \A e \in Engines : stats[e].simulation_steps = 0

\* C22: routing conservation in SNNEngine's coordinator (no STDP): when all
\* outgoing spikes have been broadcast and none was dropped by a refractory
\* neuron, the sum of total_spikes_received over the engines equals the sum
\* of total_spikes_sent times the number of registered engines.
C22_RoutingConservation ==
    (variant = "plain" /\ AllBroadcast /\ NoRefractoryDrops) =>
        SumStat("total_spikes_received", NumEngines)
            = SumStat("total_spikes_sent", NumEngines) * NumEngines

\* ------------------------------------------------------- delivery order
\* SNNEngine.inject_spike up to the point where _generate_spike has queued
\* the spike and counted it, before it calls spike_callback
InjectPlainQueued(S, e, n, value, now) ==
    LET S0 == [S EXCEPT !.stats[e].total_spikes_received = @ + 1]
    IN IF n \notin DOMAIN S0.neurons[e] THEN S0
       ELSE IF synapses[e][n] = <<>>
       THEN FireCommon(S0, e, n, now)
       ELSE LET S1 == [S0 EXCEPT !.neurons[e][n].membrane_potential = @ + value]
            IN IF S1.neurons[e][n].membrane_potential >= S1.neurons[e][n].threshold
               THEN FireCommon(S1, e, n, now)
               ELSE S1

\* the API thread runs inject_spike as far as outgoing_spikes.append and the
\* counters; the step thread of the engine may run before the callback
InjectFire(e, n, value) ==
    /\ variant = "plain"
    /\ ninject < MaxInject
    /\ callback = <<>>
    /\ LET S1 == InjectPlainQueued(Cur, e, n, value, current_time_us[e])
       IN /\ Commit(S1)
          /\ callback' = IF Len(S1.fires) > Len(fires)
                         THEN <<S1.outgoing_spikes[e][Len(S1.outgoing_spikes[e])]>>
                         ELSE <<>>
    /\ ninject' = ninject + 1
    /\ stopped_all' = FALSE
    /\ last_op' = [op |-> "inject", e |-> e, n |-> n, value |-> value]
    /\ UNCHANGED <<static, engines, first_registered, running, threads, timestep_us,
                   routing_active, routing_threads, nlife, current_time_us, rpc, r_idx, r_spikes>>

\* the API thread resumes: self.spike_callback(spike), i.e. _route_spike
InjectCallback ==
    /\ callback # <<>>
    /\ Commit(RouteSpike(Cur, Head(callback)))
    /\ callback' = Tail(callback)
    /\ last_op' = [op |-> "callback", uid |-> Head(callback).uid]
    /\ UNCHANGED <<static, lifecycle, engines, first_registered, current_time_us,
                   rpc, r_idx, r_spikes, ninject, routing_threads>>

\* the API thread and the step thread of the injected engine interleave
InitOrder == Init /\ variant = "plain" /\ target = <<1, 0>>

NextOrder ==
    \/ \E v \in InjectValues : InjectFire(target[1], target[2], v)
    \/ InjectCallback
    \/ Step(target[1])
    \/ RouterCopy
    \/ RouterClearRoute

SpecOrder == InitOrder /\ [][NextOrder]_vars

\* C23: two spikes of the same engine reach every engine's incoming queue in
\* the order they were fired: a queue never receives a spike while an
\* earlier spike of the same engine has not been appended to it.
C23_DeliveryOrder ==
    \A e \in Engines : \A j \in 1..Len(delivered[e]) : \A u \in 1..Len(fires) :
        (u < delivered[e][j] /\ fires[u].e = fires[delivered[e][j]].e) =>
            \E i \in 1..(j - 1) : delivered[e][i] = u

\* ------------------------------------------------------- stop_all order
Reverse(seq) == [i \in 1..Len(seq) |-> seq[Len(seq) + 1 - i]]

\* C24: stop_all stops the routing loop and then invokes stop() on the
\* engines in reverse registration order: the engine registered last is
\* stopped first, the engine registered first is stopped last.
C24_StopAllReverseOrder ==
    last_op.op = "stop_all" =>
        /\ ~routing_active
        /\ \A e \in Engines : ~running[e]
        /\ last_op.order = Reverse(EnginesValues)

\* ---------------------------------------------------- weight quantization
\* values of weight_value, and values the random generators return
\* (1.0 = Scale); random.uniform(weight_min, weight_max) may exceed 1.0
WeightSamples == {0, 25, 50, 75, 100, 150}

WeightKinds == {"random_normal", "random_uniform", "constant"}

\* An input layer 0..k-1 fully connected to an output layer k..n-1 on one
\* node, for every kind of weight_init and every sample
WeightTopologies ==
    {[neuron_count |-> n,
      layers |-> <<Layer(0, "input", 0, k - 1), Layer(1, "output", k, n - 1)>>,
      connections |-> <<[source_layer |-> 0, target_layer |-> 1,
                         connection_type |-> "fully_connected",
                         weight_init |-> kind, weight_value |-> w, sample |-> w]>>,
      node_assignment |-> [strategy |-> "balanced", nodes |-> <<0>>]] :
        n \in 2..4, k \in 1..3, kind \in WeightKinds, w \in WeightSamples}

InitWeights ==
    /\ variant = "plain"
    /\ target = <<1, 0>>
    /\ InitCluster
    /\ topology \in {t \in WeightTopologies : t.layers[2].neuron_ids[1] < t.neuron_count}
    /\ neuron_tables = <<>>
    /\ compiled = FALSE
    /\ node_assignments = <<>>

SpecWeights == InitWeights /\ [][Compile]_vars

\* the initial weight w of a connection, before any clamping
DrawnWeight(conn) ==
    IF conn.weight_init = "constant" THEN conn.weight_value ELSE conn.sample

\* round(clamp(w, 0, 1) * 255)
RoundedByte(w) == (2 * Clamp01(w) * WEIGHT_MAX + Scale) \div (2 * Scale)

\* the weight byte of a packed slot
SlotWeight(slot) == slot % 256

\* C25: for every kind of weight_init, the weight byte of every packed
\* synapse slot is round(clamp(w, 0, 1) * 255) of the initial weight w:
\* 0.5 is stored as 128 and any w > 1.0 as 255.
C25_WeightRoundedAndClamped ==
    (compiled /\ topology.neuron_count > 0) =>
        \A t \in 1..Len(neuron_tables) :
            \A i \in 1..Len(neuron_tables[t].entries) :
                \A j \in 1..neuron_tables[t].entries[i].synapse_count :
                    SlotWeight(neuron_tables[t].entries[i].slots[j])
                        = RoundedByte(DrawnWeight(topology.connections[1]))

\* ================================================================ loaders
ENTRY_SIZE == 256              \* bytes of one neuron entry

\* bytes that may follow the last complete entry of a table handed to a loader
TrailingBytes == {0, 1, 255}

\* the neuron both loaders build from the header fields of an entry
LoadedNeuron(entry) ==
    [neuron_id |-> entry.neuron_id,
     membrane_potential |-> entry.membrane_potential,
     threshold |-> entry.threshold,
     leak_rate |-> entry.leak_rate,
     refractory_period_us |-> entry.refractory_period_us,
     last_spike_time_us |-> entry.last_spike_time_us,
     synapse_count |-> entry.synapse_count,
     flags |-> entry.flags]

\* the last of the entries read that carries neuron_id (a later dict
\* assignment replaces an earlier one)
LastWithId(entries, id) ==
    entries[CHOOSE i \in 1..Len(entries) :
                /\ entries[i].neuron_id = id
                /\ \A j \in (i + 1)..Len(entries) : entries[j].neuron_id # id]

EntryIds(entries) == {entries[i].neuron_id : i \in 1..Len(entries)}

\* ---- SNNEngineSTDP.load_neurons_from_table
\* weight_int / 255.0
DequantizeSTDP(weight_int) == (weight_int * Scale) \div WEIGHT_MAX

SynapsesSTDP(entry) ==
    LET count == IF entry.synapse_count < SYNAPSE_CAPACITY
                 THEN entry.synapse_count ELSE SYNAPSE_CAPACITY
    IN [j \in 1..count |->
           [source_neuron_global_id |-> (entry.slots[j] \div 256) % SOURCE_ID_MASK,
            weight |-> DequantizeSTDP(entry.slots[j] % 256),
            min_weight |-> stdp_config.w_min,
            max_weight |-> stdp_config.w_max,
            last_update_time_us |-> 0]]

\* the table is nbytes long and entries are its complete 256-byte entries
LoadNeuronsFromTable(entries, nbytes) ==
    LET num_entries == nbytes \div ENTRY_SIZE
        read == SubSeq(entries, 1, num_entries)
    IN [raised |-> NoError,
        neurons |-> [id \in EntryIds(read) |->
                        LoadedNeuron(LastWithId(read, id))
                            @@ [pre_trace |-> 0, post_trace |-> 0]],
        spike_history |-> [id \in EntryIds(read) |-> <<>>],
        synapses |-> [id \in EntryIds(read) |-> SynapsesSTDP(LastWithId(read, id))]]

\* ---- SNNEngine.load_from_parsed_neurons
\* the parsed neuron of an entry: header fields and the (source_id,
\* weight_int) pairs of its first synapse_count slots
ParseNeuronEntry(entry) ==
    [neuron |-> LoadedNeuron(entry),
     synapses |-> [j \in 1..entry.synapse_count |->
                      <<(entry.slots[j] \div 256) % SOURCE_ID_MASK, entry.slots[j] % 256>>]]

\* 0..127: weight_int / 63.5; 128..255: -(weight_int - 128) / 63.5
DecodeWeight(weight_int) ==
    IF weight_int >= 128 THEN 0 - ((2 * (weight_int - 128) * Scale) \div 127)
    ELSE (2 * weight_int * Scale) \div 127

SynapsesParsed(pn) ==
    [j \in 1..Len(pn.synapses) |-> Syn(pn.synapses[j][1], DecodeWeight(pn.synapses[j][2]))]

LoadFromParsedNeurons(entries) ==
    [raised |-> NoError,
     neurons |-> [id \in EntryIds(entries) |->
                     ParseNeuronEntry(LastWithId(entries, id)).neuron],
     synapses |-> [id \in EntryIds(entries) |->
                      SynapsesParsed(ParseNeuronEntry(LastWithId(entries, id)))]]

\* engine e loads table t of the compiled tables, followed by `trailing` bytes
LoadTable(e, t, trailing) ==
    /\ variant = "stdp"
    /\ compiled
    /\ t \in 1..Len(neuron_tables)
    /\ LET nbytes == ENTRY_SIZE * Len(neuron_tables[t].entries) + trailing
           loaded == LoadNeuronsFromTable(neuron_tables[t].entries, nbytes)
       IN /\ neurons' = [neurons EXCEPT ![e] = loaded.neurons]
          /\ synapses' = [synapses EXCEPT ![e] = loaded.synapses]
          /\ spike_history' = [spike_history EXCEPT ![e] = loaded.spike_history]
          /\ pre_arrivals' = [pre_arrivals EXCEPT ![e] =
                                 [id \in DOMAIN loaded.synapses |->
                                     [j \in 1..Len(loaded.synapses[id]) |-> <<>>]]]
          /\ last_op' = [op |-> "load", e |-> e, table |-> t, nbytes |-> nbytes,
                         raised |-> loaded.raised]
    /\ UNCHANGED <<variant, target, node_id, backplane_id, incoming_spikes,
                   outgoing_spikes, current_time_us, stats, global_spike_buffer,
                   rpc, r_idx, r_spikes, fires, delivered, buffered, ninject,
                   topology, neuron_tables, compiled, node_assignments,
                   lifecycle, registration, callback, routing_threads,
                   stdp_config, drain_seen>>

\* engine e loads the parsed neurons of table t
LoadParsed(e, t) ==
    /\ variant = "plain"
    /\ compiled
    /\ t \in 1..Len(neuron_tables)
    /\ LET loaded == LoadFromParsedNeurons(neuron_tables[t].entries)
       IN /\ neurons' = [neurons EXCEPT ![e] = loaded.neurons]
          /\ synapses' = [synapses EXCEPT ![e] = loaded.synapses]
          /\ last_op' = [op |-> "load", e |-> e, table |-> t,
                         nbytes |-> ENTRY_SIZE * Len(neuron_tables[t].entries),
                         raised |-> loaded.raised]
    /\ UNCHANGED <<variant, target, node_id, backplane_id, incoming_spikes,
                   outgoing_spikes, current_time_us, stats, global_spike_buffer,
                   rpc, r_idx, r_spikes, fires, delivered, buffered, ninject,
                   topology, neuron_tables, compiled, node_assignments,
                   lifecycle, registration, callback, routing_threads, learning>>

MaxTables == 3         \* tables of one compile offered to the loaders

InitLoad ==
    /\ variant \in Variants
    /\ target = <<1, 0>>
    /\ InitCluster
    /\ topology \in {t \in Topologies : /\ t.layers[2].neuron_ids[1] < t.neuron_count
                                        /\ t.node_assignment.strategy = "balanced"
                                        /\ t.neuron_count >= 3}
    /\ neuron_tables = <<>>
    /\ compiled = FALSE
    /\ node_assignments = <<>>

NextLoad ==
    \/ Compile
    \/ \E t \in 1..MaxTables : \E trailing \in TrailingBytes : LoadTable(1, t, trailing)
    \/ \E t \in 1..MaxTables : LoadParsed(1, t)

SpecLoad == InitLoad /\ [][NextLoad]_vars

\* the table the last load read
LoadedEntries == neuron_tables[last_op.table].entries

\* C26: loading a compiled node table yields, per table entry, a neuron
\* with the entry's local id, threshold, leak_rate and refractory period,
\* whose synapses have the compiled number and source-id order and whose
\* weights are the compiled bytes w_int dequantised as w_int / 255, with
\* SNNEngineSTDP.load_neurons_from_table and with
\* SNNEngine.load_from_parsed_neurons alike.
C26_RoundTrip ==
    (last_op.op = "load" /\ last_op.nbytes % ENTRY_SIZE = 0) =>
        /\ DOMAIN neurons[last_op.e] = EntryIds(LoadedEntries)
        /\ \A i \in 1..Len(LoadedEntries) :
              LET entry == LoadedEntries[i]
                  n == neurons[last_op.e][entry.neuron_id]
                  syns == synapses[last_op.e][entry.neuron_id]
              IN /\ n.neuron_id = entry.neuron_id
                 /\ n.threshold = entry.threshold
                 /\ n.leak_rate = entry.leak_rate
                 /\ n.refractory_period_us = entry.refractory_period_us
                 /\ Len(syns) = entry.synapse_count
                 /\ \A j \in 1..Len(syns) :
                       /\ syns[j].source_neuron_global_id = SlotSource(entry.slots[j])
                       /\ syns[j].weight = (SlotWeight(entry.slots[j]) * Scale) \div WEIGHT_MAX

\* C30: a table whose byte length is not a multiple of 256 fails the load:
\* load_neurons_from_table raises instead of loading the complete entries.
C30_PartialTableFails ==
    (last_op.op = "load" /\ last_op.nbytes % ENTRY_SIZE # 0) =>
        last_op.raised # NoError

\* ------------------------------------------------------- synapse capacity
MaxSources == 62       \* largest source layer of a compiled topology

SourceCounts == {1, 30, 31} \cup (59..MaxSources)

\* the connections of a topology: one or two fully connected projections of
\* layer 0 onto layer 1, the second with weight 1.0
CapConnections(nconn) ==
    [c \in 1..nconn |->
        [source_layer |-> 0, target_layer |-> 1,
         connection_type |-> "fully_connected",
         weight_init |-> "constant", weight_value |-> c * 50]]

CapTopologies ==
    {[neuron_count |-> a + o,
      layers |-> <<Layer(0, "input", 0, a - 1), Layer(1, "output", a, a + o - 1)>>,
      connections |-> CapConnections(nconn),
      node_assignment |-> [strategy |-> st, nodes |-> nodes]] :
        a \in SourceCounts, o \in {1, 2}, nconn \in {1, 2},
        st \in {"balanced", "layer_based"}, nodes \in {<<0>>, <<0, 1>>}}

InitCap ==
    /\ variant = "plain"
    /\ target = <<1, 0>>
    /\ InitCluster
    /\ topology \in CapTopologies
    /\ neuron_tables = <<>>
    /\ compiled = FALSE
    /\ node_assignments = <<>>

SpecCap == InitCap /\ [][Compile]_vars

\* the synapses offered to neuron g, in generation order: connections in
\* declaration order, sources ascending within a connection
RECURSIVE Candidates(_, _, _)
Candidates(topo, conns, g) ==
    IF conns = <<>> THEN <<>>
    ELSE LET src == LayerById(topo, Head(conns).source_layer).neuron_ids
             tgt == LayerById(topo, Head(conns).target_layer).neuron_ids
             here == IF g >= tgt[1] /\ g <= tgt[2]
                     THEN [i \in 1..(src[2] - src[1] + 1) |->
                              <<src[1] + i - 1, QuantizeWeight(InitialWeight(Head(conns)))>>]
                     ELSE <<>>
         IN here \o Candidates(topo, Tail(conns), g)

\* the packed entry of topology neuron g
EntryOf(g) ==
    LET a == FindNodeForNeuron(node_assignments, g)
        table == neuron_tables[CHOOSE t \in 1..Len(neuron_tables) :
                                   neuron_tables[t].node_id = a.node_id]
    IN table.entries[CHOOSE i \in 1..Len(table.entries) :
                         table.entries[i].neuron_id = IndexOf(a.neuron_ids, g)]

\* slots of an entry that hold a synapse (every weight here is non-zero)
PackedSlots(entry) == Cardinality({j \in 1..SYNAPSE_CAPACITY : entry.slots[j] # 0})

\* C27: after compile every neuron has at most 60 synapses and its header
\* synapse_count is the number of packed slots; of the candidates of a
\* neuron exactly the first 60 in generation order are packed, the rest are
\* dropped, and compile does not fail.
C27_FirstSixtySurvive ==
    compiled =>
        /\ last_op.raised = NoError
        /\ \A g \in 0..(topology.neuron_count - 1) :
              LET entry == EntryOf(g)
                  cand == Candidates(topology, topology.connections, g)
                  kept == IF Len(cand) < SYNAPSE_CAPACITY THEN Len(cand) ELSE SYNAPSE_CAPACITY
              IN /\ entry.synapse_count <= SYNAPSE_CAPACITY
                 /\ entry.synapse_count = PackedSlots(entry)
                 /\ entry.synapse_count = kept
                 /\ \A j \in 1..kept : entry.slots[j] = PackSynapse(cand[j])

\* a compiled neuron that was offered more than 60 synapses by two
\* connections and keeps 60
C27_Witness ==
    /\ compiled
    /\ Len(topology.connections) = 2
    /\ \E g \in 0..(topology.neuron_count - 1) :
          /\ Len(Candidates(topology, topology.connections, g)) > SYNAPSE_CAPACITY
          /\ EntryOf(g).synapse_count = SYNAPSE_CAPACITY

\* ---------------------------------------------------- balanced assignment
MaxAssignNeurons == 7  \* largest neuron_count of a balanced topology

AssignNodeLists ==
    {<<>>, <<0>>, <<1>>, <<0, 1>>, <<1, 0>>, <<2, 5>>, <<0, 1, 2>>, <<2, 0, 1>>,
     <<0, 1, 2, 3>>, <<0, 0>>, <<0, 1, 0>>}

\* one hidden layer holding every neuron, no connections
AssignTopologies ==
    {[neuron_count |-> n,
      layers |-> <<Layer(0, "hidden", 0, n - 1)>>,
      connections |-> <<>>,
      node_assignment |-> [strategy |-> "balanced", nodes |-> nodes]] :
        n \in 0..MaxAssignNeurons, nodes \in AssignNodeLists}

InitAssign ==
    /\ variant = "plain"
    /\ target = <<1, 0>>
    /\ InitCluster
    /\ topology \in AssignTopologies
    /\ neuron_tables = <<>>
    /\ compiled = FALSE
    /\ node_assignments = <<>>

SpecAssign == InitAssign /\ [][Compile]_vars

\* the places (node index, position) at which node_assignments holds id
PlacesOf(id) ==
    {p \in (1..Len(node_assignments)) \X (1..(topology.neuron_count + 1)) :
        /\ p[2] <= Len(node_assignments[p[1]].neuron_ids)
        /\ node_assignments[p[1]].neuron_ids[p[2]] = id}

\* the number of neurons node_assignments gives to a node
LoadOf(node) ==
    IF AssignmentIndex(node_assignments, node) = 0 THEN 0
    ELSE Len(node_assignments[AssignmentIndex(node_assignments, node)].neuron_ids)

\* what the balanced strategy promises about the outcome of compile()
BalancedOutcome ==
    LET nodes == topology.node_assignment.nodes
        n == topology.neuron_count
    IN /\ last_op.raised = NoError
       /\ \A id \in 0..(n - 1) : Cardinality(PlacesOf(id)) = 1
       /\ \A k \in 1..Len(nodes) :
             /\ LoadOf(nodes[k])
                    = (n \div Len(nodes))
                      + (IF \E r \in 1..(n % Len(nodes)) : nodes[r] = nodes[k] THEN 1 ELSE 0)
             /\ \A m \in 1..Len(nodes) : LoadOf(nodes[k]) <= LoadOf(nodes[m]) + 1
       /\ \A k \in 1..Len(node_assignments) :
             /\ Len(neuron_tables[k].entries) = Len(node_assignments[k].neuron_ids)
             /\ \A i \in 1..Len(neuron_tables[k].entries) :
                   neuron_tables[k].entries[i].neuron_id = i - 1

DistinctNodes(nodes) ==
    \A i \in 1..Len(nodes) : \A j \in 1..Len(nodes) : nodes[i] = nodes[j] => i = j

\* C28 as stated, for every nodes list (here: every non-empty one, the empty
\* list ends compile with a division by zero): under 'balanced' each neuron
\* id 0..neuron_count-1 is assigned to exactly one node, node loads differ
\* by at most 1, the remainder goes one each to the nodes in list order
\* from index 0, and a neuron's local id is its position in its node's list.
C28_BalancedEveryNodesList ==
    (compiled /\ topology.node_assignment.nodes # <<>>) => BalancedOutcome

\* C28 for a non-empty nodes list without repeated node ids: each neuron id
\* is assigned to exactly one node, loads differ by at most 1, the
\* remainder goes one each to the first nodes of the list, and local ids
\* are the positions in the node's list.
C28_BalancedDistinctNodes ==
    (/\ compiled
     /\ topology.node_assignment.nodes # <<>>
     /\ DistinctNodes(topology.node_assignment.nodes)) => BalancedOutcome

\* a compiled assignment over three distinct nodes with a remainder of two
C28_Witness ==
    /\ compiled
    /\ DistinctNodes(topology.node_assignment.nodes)
    /\ Len(topology.node_assignment.nodes) = 3
    /\ topology.neuron_count % 3 = 2
    /\ LoadOf(topology.node_assignment.nodes[1]) = LoadOf(topology.node_assignment.nodes[3]) + 1

\* ------------------------------------------------------ overlapping layers
MaxLayerEnd == 4       \* largest neuron id of a two-layer topology

\* Two layers 0..a and b..c without a gap between them; they overlap when
\* b <= a
OverlapTopologies ==
    {[neuron_count |-> c + 1,
      layers |-> <<Layer(0, "input", 0, a), Layer(1, "output", b, c)>>,
      connections |-> <<>>,
      node_assignment |-> [strategy |-> st, nodes |-> nodes]] :
        a \in 0..(MaxLayerEnd - 1), b \in 0..MaxLayerEnd, c \in 0..MaxLayerEnd,
        st \in {"balanced", "layer_based"}, nodes \in {<<0>>, <<0, 1>>}}

InitOverlap ==
    /\ variant = "plain"
    /\ target = <<1, 0>>
    /\ InitCluster
    /\ topology \in {t \in OverlapTopologies :
                        /\ t.layers[2].neuron_ids[1] <= t.layers[1].neuron_ids[2] + 1
                        /\ t.layers[2].neuron_ids[1] <= t.layers[2].neuron_ids[2]
                        /\ t.layers[1].neuron_ids[2] <= t.layers[2].neuron_ids[2]}
    /\ neuron_tables = <<>>
    /\ compiled = FALSE
    /\ node_assignments = <<>>

SpecOverlap == InitOverlap /\ [][Compile]_vars

\* two layers of the topology share a neuron id
LayersOverlap(topo) ==
    \E i \in 1..Len(topo.layers) : \E j \in (i + 1)..Len(topo.layers) :
        /\ topo.layers[i].neuron_ids[1] <= topo.layers[j].neuron_ids[2]
        /\ topo.layers[j].neuron_ids[1] <= topo.layers[i].neuron_ids[2]

\* C29: compile() fails when the neuron_ids ranges of two layers overlap,
\* and no compiled node table holds two entries with the same local id.
C29_OverlapRejected ==
    compiled =>
        /\ LayersOverlap(topology) => last_op.raised # NoError
        /\ \A t \in 1..Len(neuron_tables) :
              \A i \in 1..Len(neuron_tables[t].entries) :
                  \A j \in 1..Len(neuron_tables[t].entries) :
                      neuron_tables[t].entries[i].neuron_id
                          = neuron_tables[t].entries[j].neuron_id => i = j

\* ------------------------------------------------------ one step task
\* C37: at most one simulation task executes steps for an engine, over every
\* interleaving of start(), a stop() whose bounded join may time out, and a
\* further start(): no step thread that has not yet seen the cleared run flag
\* lives alongside a newly started one.
C37_SingleStepTask ==
    \A e \in Engines : threads[e].test + threads[e].body <= 1

\* ====================================================== start_all
\* ClusterSNNCoordinator.start_all: start every engine, set the routing flag
\* and start a routing thread
StartAll(ts) ==
    /\ nlife < MaxLife
    /\ running' = [e \in Engines |-> TRUE]
    /\ timestep_us' = [e \in Engines |->
                          IF ~running[e] /\ variant = "plain" THEN ts ELSE timestep_us[e]]
    /\ current_time_us' = [e \in Engines |->
                              IF running[e] THEN current_time_us[e] ELSE 0]
    /\ threads' = [e \in Engines |->
                      IF running[e] THEN threads[e]
                      ELSE [threads[e] EXCEPT !.test = @ + 1]]
    /\ routing_active' = TRUE
    /\ routing_threads' = routing_threads + 1
    /\ nlife' = nlife + 1
    /\ stopped_all' = FALSE
    /\ last_op' = [op |-> "start_all", ts |-> ts]
    /\ UNCHANGED <<static, registration, callback, neurons, incoming_spikes,
                   outgoing_spikes, stats, global_spike_buffer, rpc, r_idx, r_spikes,
                   fires, delivered, buffered, ninject>>

\* a routing thread finds the flag cleared at its loop test and ends
RouterExit ==
    /\ ~routing_active
    /\ RoutingAtTest
    /\ routing_threads >= 1
    /\ routing_threads' = routing_threads - 1
    /\ last_op' = [op |-> "router_exit"]
    /\ UNCHANGED <<static, lifecycle, registration, callback, neurons, incoming_spikes,
                   outgoing_spikes, current_time_us, stats, global_spike_buffer,
                   rpc, r_idx, r_spikes, fires, delivered, buffered, ninject>>

NextStartAll ==
    \/ \E v \in InjectValues : ninject < MaxLifeInject /\ Inject(target[1], target[2], v)
    \/ \E ts \in StartArgs : StartAll(ts)
    \/ StopAll
    \/ RouterExit
    \/ RouterCopy
    \/ RouterClearRoute
    \/ RouterCollect
    \/ RouterDistribute

\* the cluster after start_all; the client stimulates the input neuron of engine 1
SpecStartAll == InitLife /\ [][NextStartAll]_vars

\* C38: at most one routing loop is active per coordinator over any sequence
\* of start_all and stop_all calls, also when start_all is called twice in a
\* row and when it follows a stop_all whose join timed out.
C38_SingleRoutingLoop ==
    routing_threads <= 1

\* ================================================== neurons that never fired
\* refractory periods of the table entry of neuron 1 of engine 1
UnfiredRefractory == {TIMESTEP_US, 2 * TIMESTEP_US, 3 * TIMESTEP_US}

\* Network, with the refractory period of neuron 1 of engine 1 drawn from
\* UnfiredRefractory; last_spike_time_us is 0 as packed by the compiler
InitUnfired ==
    /\ variant = "plain"
    /\ target = <<1, 0>>
    /\ InitRuntime
    /\ stdp_config = DisabledConfig
    /\ synapses = [e \in Engines |-> [n \in NeuronIds(e) |-> TableEntry(e, n).syn]]
    /\ \E refr \in UnfiredRefractory :
          neurons = [e \in Engines |->
                        [n \in NeuronIds(e) |->
                            Neuron(n, TableEntry(e, n).syn,
                                   IF e = 1 /\ n = 1 THEN refr ELSE TableEntry(e, n).refr)]]
    /\ spike_history = [e \in Engines |-> [n \in NeuronIds(e) |-> <<>>]]
    /\ pre_arrivals = [e \in Engines |->
                          [n \in NeuronIds(e) |->
                              [j \in 1..Len(TableEntry(e, n).syn) |-> <<>>]]]
    /\ topology = NoTopology
    /\ neuron_tables = <<>>
    /\ compiled = FALSE
    /\ node_assignments = <<>>

NextUnfired ==
    \/ \E v \in InjectValues : Inject(target[1], target[2], v)
    \/ Step(target[1])
    \/ RouterCopy
    \/ RouterClearRoute

SpecUnfired == InitUnfired /\ [][NextUnfired]_vars

\* a spike queued for engine e matches a synapse of its neuron n
QueuedInputFor(e, n) ==
    \E i \in 1..Len(incoming_spikes[e]) : \E j \in 1..Len(synapses[e][n]) :
        synapses[e][n][j].source_neuron_global_id = SpikeGlobalId(incoming_spikes[e][i])

\* C40: a neuron that has never fired (last_spike_time_us = 0 as loaded) is
\* never treated as refractory by SNNEngine._process_spike: a step that
\* drains a spike matching one of its synapses adds the input to its
\* membrane potential (the neuron's potential rises or it fires), also while
\* current_time_us < refractory_period_us.
C40_UnfiredNeverRefractory ==
    [][\A n \in NeuronIds(target[1]) :
          (/\ last_op'.op = "step"
           /\ FireTimes(target[1], n) = <<>>
           /\ QueuedInputFor(target[1], n))
          => \/ FireTimes(target[1], n)' # <<>>
             \/ neurons'[target[1]][n].membrane_potential
                    > neurons[target[1]][n].membrane_potential]_vars

\* ============================================================ fire effects
\* uids of the fires engine e makes in a step of the cluster
NewFires(e) == {u \in (Len(fires) + 1)..Len(fires') : fires'[u].e = e}

\* C34: every fire (SNNEngine._generate_spike, SNNEngineSTDP._fire_neuron)
\* sets the neuron's last_spike_time_us to current_time_us, resets its
\* membrane potential to 0, appends exactly one Spike (local id, the engine's
\* node and backplane ids, timestamp current_time_us) to outgoing_spikes and
\* adds 1 to total_spikes_sent and to neurons_spiked; total_spikes_sent is
\* always the number of spikes ever appended to outgoing_spikes.
C34_FireEffects ==
    [][\A e \in Engines :
          /\ stats'[e].total_spikes_sent = stats[e].total_spikes_sent + Cardinality(NewFires(e))
          /\ stats'[e].neurons_spiked = stats[e].neurons_spiked + Cardinality(NewFires(e))
          /\ stats'[e].total_spikes_sent
                 = Cardinality({u \in 1..Len(fires') : fires'[u].e = e})
          /\ NewFires(e) # {} =>
                /\ Len(outgoing_spikes'[e]) = Len(outgoing_spikes[e]) + Cardinality(NewFires(e))
                /\ \A u \in NewFires(e) :
                      /\ fires'[u].t = current_time_us'[e]
                      /\ \E i \in (Len(outgoing_spikes[e]) + 1)..Len(outgoing_spikes'[e]) :
                            outgoing_spikes'[e][i]
                                = Spike(fires'[u].n, node_id[e], backplane_id[e],
                                        current_time_us'[e], Scale, u)
                      /\ neurons'[e][fires'[u].n].last_spike_time_us = current_time_us'[e]
                      /\ neurons'[e][fires'[u].n].membrane_potential = 0]_vars

\* a step of an engine in which one of its neurons fired, after an earlier fire
C34_Witness ==
    /\ last_op.op = "step"
    /\ Len(fires) >= 2
    /\ fires[Len(fires)].e = last_op.e
    /\ fires[Len(fires)].t = current_time_us[last_op.e]
    /\ outgoing_spikes[last_op.e] # <<>>

\* ============================================================ fire in drain
\* the world of engine e's next step when its drain loop has emptied the
\* incoming queue, before the leak pass
AfterDrain(e) ==
    LET now == current_time_us[e] + timestep_us[e]
        S0 == [Cur EXCEPT !.stats[e].simulation_steps = @ + 1]
    IN IF variant = "plain" THEN DrainPlain(S0, e, now) ELSE DrainSTDP(S0, e, now)

\* C35: in a simulation step, a non-refractory neuron whose membrane
\* potential a synaptic input brings to the threshold or above fires during
\* the spike-drain phase of that step, before the leak pass reaches it: at
\* the end of the drain no such neuron is left at or above its threshold
\* (both engine variants).
C35_FiresInDrain ==
    [][last_op'.op = "step" =>
          \A n \in NeuronIds(last_op'.e) :
              LET before == neurons[last_op'.e][n]
                  drained == AfterDrain(last_op'.e).neurons[last_op'.e][n]
              IN ~(/\ drained.membrane_potential > before.membrane_potential
                   /\ drained.membrane_potential >= drained.threshold
                   /\ ~InRefractory(drained, current_time_us'[last_op'.e]))]_vars

\* ============================================================ drain loop
MaxDrainSteps == 3     \* simulation steps begun in a run of the drain loop

\* refractory periods of neuron 1 of engine 1
DrainRefractory == {0, TIMESTEP_US}

\* weights of the synapse neuron 1 of engine 1 has from itself
SelfWeights == {60, 120}

\* Network, with a second synapse on neuron 1 of engine 1 from its own
\* global id 0x000001 (weight drawn from SelfWeights) and its refractory
\* period drawn from DrainRefractory
InitDrain ==
    /\ variant = "plain"
    /\ target = <<1, 0>>
    /\ InitRuntime
    /\ stdp_config = DisabledConfig
    /\ \E w \in SelfWeights :
          synapses = [e \in Engines |->
                         [n \in NeuronIds(e) |->
                             IF e = 1 /\ n = 1
                             THEN TableEntry(e, n).syn \o <<Syn(GlobalId(node_id[1], 1), w)>>
                             ELSE TableEntry(e, n).syn]]
    /\ \E refr \in DrainRefractory :
          neurons = [e \in Engines |->
                        [n \in NeuronIds(e) |->
                            Neuron(n, synapses[e][n],
                                   IF e = 1 /\ n = 1 THEN refr ELSE TableEntry(e, n).refr)]]
    /\ spike_history = [e \in Engines |-> [n \in NeuronIds(e) |-> <<>>]]
    /\ pre_arrivals = [e \in Engines |->
                          [n \in NeuronIds(e) |-> [j \in 1..Len(synapses[e][n]) |-> <<>>]]]
    /\ topology = NoTopology
    /\ neuron_tables = <<>>
    /\ compiled = FALSE
    /\ node_assignments = <<>>

\* what the drain loop of engine e reads: the queued spikes and the neurons
\* (the clock stands still during a step)
LoopState(e) ==
    [queue |-> [i \in 1..Len(incoming_spikes[e]) |->
                   <<incoming_spikes[e][i].neuron_id, incoming_spikes[e][i].source_node,
                     incoming_spikes[e][i].value>>],
     neurons |-> neurons[e]]

\* inject_spike while the step thread of the engine is between two steps
InjectBetweenSteps(e, n, value) ==
    /\ threads[e].body = 0
    /\ Inject(e, n, value)
    /\ UNCHANGED drain_seen

\* _simulation_step up to the drain loop: count the step, advance the clock
BeginStep(e) ==
    /\ running[e]
    /\ threads[e].test >= 1
    /\ stats[e].simulation_steps < MaxDrainSteps
    /\ stats' = [stats EXCEPT ![e].simulation_steps = @ + 1]
    /\ current_time_us' = [current_time_us EXCEPT ![e] = @ + timestep_us[e]]
    /\ threads' = [threads EXCEPT ![e] = [test |-> @.test - 1, body |-> @.body + 1]]
    /\ drain_seen' = {}
    /\ last_op' = [op |-> "begin", e |-> e]
    /\ UNCHANGED <<variant, node_id, backplane_id, synapses, target, topology,
                   neuron_tables, compiled, node_assignments, stdp_config,
                   spike_history, pre_arrivals, registration, callback, routing_threads,
                   running, timestep_us, routing_active, stopped_all, nlife,
                   neurons, incoming_spikes, outgoing_spikes, global_spike_buffer,
                   rpc, r_idx, r_spikes, fires, delivered, buffered, ninject>>

\* one iteration of `while self.incoming_spikes`: popleft and _process_spike;
\* a drain is followed until its loop state recurs
DrainOne(e) ==
    /\ threads[e].body >= 1
    /\ incoming_spikes[e] # <<>>
    /\ LoopState(e) \notin drain_seen
    /\ Commit(ProcessSpikePlain([Cur EXCEPT !.incoming_spikes[e] = Tail(@)],
                                e, Head(incoming_spikes[e]), current_time_us[e]))
    /\ drain_seen' = drain_seen \cup {LoopState(e)}
    /\ last_op' = [op |-> "drain", e |-> e]
    /\ UNCHANGED <<variant, node_id, backplane_id, synapses, target, topology,
                   neuron_tables, compiled, node_assignments, stdp_config,
                   spike_history, pre_arrivals, lifecycle, registration, callback,
                   routing_threads, current_time_us, rpc, r_idx, r_spikes, ninject>>

\* the queue is empty: the leak pass, then back to the loop test
LeakPass(e) ==
    /\ threads[e].body >= 1
    /\ incoming_spikes[e] = <<>>
    /\ Commit(LeakPlain(Cur, e, NeuronOrder(e)))
    /\ threads' = [threads EXCEPT ![e] = [test |-> @.test + 1, body |-> @.body - 1]]
    /\ drain_seen' = {}
    /\ last_op' = [op |-> "step", e |-> e]
    /\ UNCHANGED <<variant, node_id, backplane_id, synapses, target, topology,
                   neuron_tables, compiled, node_assignments, stdp_config,
                   spike_history, pre_arrivals, registration, callback, routing_threads,
                   running, timestep_us, routing_active, stopped_all, nlife,
                   current_time_us, rpc, r_idx, r_spikes, ninject>>

NextDrain ==
    \/ \E v \in InjectValues : InjectBetweenSteps(target[1], target[2], v)
    \/ BeginStep(target[1])
    \/ DrainOne(target[1])
    \/ LeakPass(target[1])

SpecDrain == InitDrain /\ [][NextDrain]_vars

\* C39: every SNNEngine simulation step terminates when no injection arrives
\* during it, whatever the network: the drain loop, in which a fire is routed
\* through spike_callback back into the engine's own queue, never comes back
\* to a loop state (queued spikes and neurons) it was in earlier in the same
\* step, also with refractory_period_us = 0 and a self-exciting synapse.
C39_DrainTerminates ==
    \A e \in Engines : threads[e].body >= 1 => LoopState(e) \notin drain_seen

\* ============================================================ STDP learning
SPIKE_HISTORY_MAXLEN == 100    \* deque(maxlen=100)

\* The mutable world of the STDP engine with its learning state, and the
\* weight updates and fires made so far by the running handler.
CurLearning ==
    [neurons |-> neurons, incoming_spikes |-> incoming_spikes,
     outgoing_spikes |-> outgoing_spikes, stats |-> stats,
     global_spike_buffer |-> global_spike_buffer, fires |-> fires,
     delivered |-> delivered, buffered |-> buffered,
     synapses |-> synapses, spike_history |-> spike_history,
     pre_arrivals |-> pre_arrivals, triggers |-> 0, updates |-> <<>>, fired |-> <<>>]

CommitLearning(L) ==
    /\ Commit(L)
    /\ synapses' = L.synapses
    /\ spike_history' = L.spike_history
    /\ pre_arrivals' = L.pre_arrivals

\* math.exp(-dt / tau) in units of 1/Scale, for dt a multiple of tau / 2:
\* ExpTable[k] is exp(-k / 2)
ExpTable == <<61, 37, 22, 14, 8, 5, 3, 2, 1>>

ExpNeg(dt, tau) ==
    LET k == (2 * dt) \div tau
    IN IF k <= 0 THEN Scale
       ELSE IF k > Len(ExpTable) THEN 0
       ELSE ExpTable[k]

\* deque(maxlen=100).append
AppendHistory(history, t) ==
    IF Len(history) >= SPIKE_HISTORY_MAXLEN THEN Append(Tail(history), t)
    ELSE Append(history, t)

WeightsOf(syns) == [k \in 1..Len(syns) |-> syns[k].weight]

\* max(synapse.min_weight, min(synapse.max_weight, w))
ClampWeight(syn, w) ==
    LET m == IF w < syn.max_weight THEN w ELSE syn.max_weight
    IN IF m > syn.min_weight THEN m ELSE syn.min_weight

\* SNNEngineSTDP._update_weight
UpdateWeight(L, e, n, k, delta_w, now, pairing) ==
    LET syn == L.synapses[e][n][k]
        new == ClampWeight(syn, syn.weight + delta_w)
    IN [L EXCEPT !.synapses[e][n][k].weight = new,
                 !.synapses[e][n][k].last_update_time_us = now,
                 !.stats[e].stdp_updates = @ + 1,
                 !.stats[e].weight_increases = IF delta_w > 0 THEN @ + 1 ELSE @,
                 !.stats[e].weight_decreases = IF delta_w > 0 THEN @ ELSE @ + 1,
                 !.updates = Append(@, [n |-> n, k |-> k, kind |-> pairing.kind,
                                        paired |-> pairing.paired,
                                        nearest |-> pairing.nearest,
                                        trigger |-> L.triggers,
                                        old |-> syn.weight, new |-> new])]

\* `for t in reversed(times)`: the index of the first t, from the newest
\* back, with 0 < t_ref - t <= max_delta_t; 0 if there is none
LatestInWindow(times, t_ref, max_delta_t) ==
    LET ok == {i \in 1..Len(times) :
                  t_ref - times[i] > 0 /\ t_ref - times[i] <= max_delta_t}
    IN IF ok = {} THEN 0 ELSE CHOOSE i \in ok : \A j \in ok : j <= i

\* SNNEngineSTDP._apply_stdp on synapse k of neuron n
ApplySTDP(L0, e, n, k, is_pre_spike, now) ==
    LET L == [L0 EXCEPT !.triggers = @ + 1]
        source_id == L.synapses[e][n][k].source_neuron_global_id
    IN IF source_id \notin DOMAIN L.spike_history[e] THEN L
       ELSE LET pre_spikes == L.spike_history[e][source_id]
                post_spikes == L.spike_history[e][n]
            IN IF pre_spikes = <<>> \/ post_spikes = <<>> THEN L
               ELSE IF is_pre_spike
               THEN LET t_pre == pre_spikes[Len(pre_spikes)]
                        i == LatestInWindow(post_spikes, t_pre, stdp_config.max_delta_t)
                    IN IF i = 0 THEN L
                       ELSE UpdateWeight(L, e, n, k,
                                0 - Mul(stdp_config.learning_rate_minus,
                                        ExpNeg(t_pre - post_spikes[i], stdp_config.tau_minus)),
                                now,
                                [kind |-> "LTD", paired |-> post_spikes[i],
                                 nearest |-> post_spikes[Len(post_spikes)]])
               ELSE LET t_post == post_spikes[Len(post_spikes)]
                        i == LatestInWindow(pre_spikes, t_post, stdp_config.max_delta_t)
                    IN IF i = 0 THEN L
                       ELSE UpdateWeight(L, e, n, k,
                                Mul(stdp_config.learning_rate_plus,
                                    ExpNeg(t_post - pre_spikes[i], stdp_config.tau_plus)),
                                now,
                                [kind |-> "LTP", paired |-> pre_spikes[i],
                                 nearest |-> pre_spikes[Len(pre_spikes)]])

\* for synapse in self.synapses[neuron.neuron_id]: _apply_stdp(.., False)
RECURSIVE ApplyPost(_, _, _, _, _)
ApplyPost(L, e, n, k, now) ==
    IF k > Len(L.synapses[e][n]) THEN L
    ELSE ApplyPost(ApplySTDP(L, e, n, k, FALSE, now), e, n, k + 1, now)

\* a fire that raises post_trace and pairs the synapses whatever enabled says
FireNeuronAlwaysLearning(L, e, n, now) ==
    LET L1 == FireCommon(L, e, n, now)
        L2 == [L1 EXCEPT !.spike_history[e][n] = AppendHistory(@, now),
                         !.neurons[e][n].post_trace = @ + Scale]
    IN ApplyPost(L2, e, n, 1, now)

\* SNNEngineSTDP._fire_neuron
FireNeuronLearning(L, e, n, now) ==
    LET L1 == FireCommon(L, e, n, now)
        L2 == [L1 EXCEPT !.spike_history[e][n] = AppendHistory(@, now),
                         !.neurons[e][n].post_trace =
                             IF stdp_config.enabled THEN @ + Scale ELSE @]
        L3 == IF stdp_config.enabled /\ n \in DOMAIN L2.synapses[e]
              THEN ApplyPost(L2, e, n, 1, now)
              ELSE L2
    IN [L3 EXCEPT !.fired = Append(@, [n |-> n, t |-> now,
                                       before |-> WeightsOf(L.synapses[e][n]),
                                       after |-> WeightsOf(L3.synapses[e][n])])]

\* the synapses of neuron n, from the k-th on, take the spike of source_id
RECURSIVE ApplySynapsesLearning(_, _, _, _, _, _, _)
ApplySynapsesLearning(L, e, n, k, source_id, spike, now) ==
    IF k > Len(L.synapses[e][n]) THEN L
    ELSE IF L.synapses[e][n][k].source_neuron_global_id = source_id
    THEN LET L1 == [L EXCEPT !.neurons[e][n].membrane_potential =
                                 @ + Mul(L.synapses[e][n][k].weight, spike.value),
                             !.pre_arrivals[e][n][k] = Append(@, now)]
             L2 == IF stdp_config.enabled THEN ApplySTDP(L1, e, n, k, TRUE, now) ELSE L1
         IN ApplySynapsesLearning(L2, e, n, k + 1, source_id, spike, now)
    ELSE ApplySynapsesLearning(L, e, n, k + 1, source_id, spike, now)

RECURSIVE ProcessTargetsLearning(_, _, _, _, _, _)
ProcessTargetsLearning(L, e, ids, source_id, spike, now) ==
    IF ids = <<>> THEN L
    ELSE ProcessTargetsLearning(
             ApplySynapsesLearning(L, e, Head(ids), 1, source_id, spike, now),
             e, Tail(ids), source_id, spike, now)

\* the loaded ids in the order of self.neurons / self.synapses (table order)
LoadedOrder(L, e) == SelectSeq(NeuronOrder(e), LAMBDA n : n \in DOMAIN L.neurons[e])

\* SNNEngineSTDP._process_spike
ProcessSpikeLearning(L, e, spike, now) ==
    LET source_id == SourceIdSTDP(spike)
        L1 == IF source_id \in DOMAIN L.spike_history[e]
              THEN [L EXCEPT !.spike_history[e][source_id] = AppendHistory(@, now)]
              ELSE L
    IN IF source_id \in DOMAIN L1.neurons[e] /\ L1.neurons[e][source_id].synapse_count = 0
       THEN FireNeuronLearning(L1, e, source_id, now)
       ELSE ProcessTargetsLearning(L1, e, LoadedOrder(L1, e), source_id, spike, now)

RECURSIVE DrainLearning(_, _, _)
DrainLearning(L, e, now) ==
    IF L.incoming_spikes[e] = <<>> THEN L
    ELSE DrainLearning(ProcessSpikeLearning([L EXCEPT !.incoming_spikes[e] = Tail(@)],
                                            e, Head(L.incoming_spikes[e]), now),
                       e, now)

\* the leak pass of _simulation_loop
RECURSIVE LeakLearning(_, _, _, _)
LeakLearning(L, e, ids, now) ==
    IF ids = <<>> THEN L
    ELSE LET n == Head(ids)
             v == L.neurons[e][n].membrane_potential
             lv == (v * L.neurons[e][n].leak_rate) \div Scale
             L1 == IF v > 0
                   THEN LET L2 == [L EXCEPT !.neurons[e][n].membrane_potential = lv]
                        IN IF LeakFires(lv, L2.neurons[e][n], now)
                           THEN FireNeuronLearning(L2, e, n, now)
                           ELSE L2
                   ELSE L
         IN LeakLearning(L1, e, Tail(ids), now)

\* SNNEngineSTDP._decay_traces
DecayTraces(L, e) ==
    [L EXCEPT !.neurons[e] =
        [n \in DOMAIN @ |->
            [@[n] EXCEPT !.pre_trace = Mul(@, ExpNeg(timestep_us[e], stdp_config.tau_plus)),
                         !.post_trace = Mul(@, ExpNeg(timestep_us[e], stdp_config.tau_minus))]]]

\* one iteration of SNNEngineSTDP._simulation_loop after the clock advanced
SimulationLoopLearning(L, e, now) ==
    LET L1 == LeakLearning(
                  DrainLearning([L EXCEPT !.stats[e].simulation_steps = @ + 1], e, now),
                  e, LoadedOrder(L, e), now)
    IN IF stdp_config.enabled THEN DecayTraces(L1, e) ELSE L1

\* ---- the learning engine: engine 1, loaded with LearningEntries
MaxLearnSteps == 3     \* iterations of _simulation_loop in a learning run
MaxArrive == 3         \* spikes delivered to or injected into the engine

\* enabled with the default bounds; enabled with bounds 0.2 .. 0.5; disabled;
\* enabled with a window of one timestep.  The learning rates are 0.2 and
\* the time constants two timesteps.
LearningConfigs ==
    {STDPConfig(TRUE, 20, 2 * TIMESTEP_US, 0, Scale, 100 * TIMESTEP_US),
     STDPConfig(TRUE, 20, 2 * TIMESTEP_US, 20, 50, 100 * TIMESTEP_US),
     STDPConfig(FALSE, 20, 2 * TIMESTEP_US, 0, Scale, 100 * TIMESTEP_US),
     STDPConfig(TRUE, 20, 2 * TIMESTEP_US, 0, Scale, TIMESTEP_US)}

LearningNeuron(nid, thr, syns) ==
    [neuron_id |-> nid, flags |-> 1, threshold |-> thr, leak_rate |-> 95,
     refractory_period_us |-> TIMESTEP_US, synapses |-> syns]

\* The table of the learning engine:
\*   neuron 0: threshold 0.5, synapses from id 1 and from id 5, weight byte 102 (0.4)
\*   neuron 1: threshold 1.0, one synapse from id 5, weight byte 153 (0.6)
\* Id 1 is also the local id of a neuron of the engine; no neuron of the
\* engine has local id 5.
LearningEntries ==
    <<PackNeuronEntry(LearningNeuron(0, 50, << <<1, 102>>, <<5, 102>> >>)),
      PackNeuronEntry(LearningNeuron(1, Scale, << <<5, 153>> >>))>>

\* local ids of the neurons on the other node whose spikes reach the engine
RemoteSources == {1, 5}

\* an SNNEngineSTDP constructed with a configuration and registered; its
\* table is at hand and not loaded yet
InitLearning ==
    /\ variant = "stdp"
    /\ target = <<1, 1>>
    /\ InitRuntime
    /\ stdp_config \in LearningConfigs
    /\ neurons = [e \in Engines |-> <<>>]
    /\ synapses = [e \in Engines |-> <<>>]
    /\ spike_history = [e \in Engines |-> <<>>]
    /\ pre_arrivals = [e \in Engines |-> <<>>]
    /\ topology = NoTopology
    /\ neuron_tables = <<[node_id |-> Network.node[1], entries |-> LearningEntries]>>
    /\ compiled = TRUE
    /\ node_assignments = <<>>

Loaded(e) == DOMAIN neurons[e] # {}

\* spikes queued for engine e so far, by the routing loop and by inject_spike
Arrived(e) == Len(delivered[e]) + ninject

\* ClusterSNNCoordinator.set_stdp_config
SetStdpConfig(config) ==
    /\ config # stdp_config
    /\ stdp_config' = config
    /\ last_op' = [op |-> "set_stdp_config"]
    /\ UNCHANGED <<variant, node_id, backplane_id, synapses, target, topology,
                   neuron_tables, compiled, node_assignments, spike_history,
                   pre_arrivals, drain_seen, lifecycle, registration, callback,
                   routing_threads, neurons, incoming_spikes, outgoing_spikes,
                   current_time_us, stats, global_spike_buffer, rpc, r_idx, r_spikes,
                   fires, delivered, buffered, ninject>>

\* the routing loop hands engine e the spike of neuron src of engine 2:
\* engine.incoming_spikes.append(spike)
Arrive(e, src) ==
    /\ Loaded(e)
    /\ Arrived(e) < MaxArrive
    /\ incoming_spikes' =
           [incoming_spikes EXCEPT ![e] =
               Append(@, Spike(src, node_id[2], backplane_id[2], current_time_us[2], Scale, 0))]
    /\ delivered' = [delivered EXCEPT ![e] = Append(@, 0)]
    /\ last_op' = [op |-> "arrive", e |-> e, src |-> src]
    /\ UNCHANGED <<static, lifecycle, registration, callback, routing_threads, neurons,
                   outgoing_spikes, current_time_us, stats, global_spike_buffer,
                   rpc, r_idx, r_spikes, fires, buffered, ninject>>

\* one iteration of the _simulation_loop of engine e
StepLearning(e) ==
    /\ Loaded(e)
    /\ running[e]
    /\ threads[e].test >= 1
    /\ stats[e].simulation_steps < MaxLearnSteps
    /\ LET now == current_time_us[e] + timestep_us[e]
           L == SimulationLoopLearning(CurLearning, e, now)
       IN /\ current_time_us' = [current_time_us EXCEPT ![e] = now]
          /\ CommitLearning(L)
          /\ last_op' = [op |-> "step", e |-> e, updates |-> L.updates, fired |-> L.fired]
    /\ UNCHANGED <<variant, node_id, backplane_id, target, topology, neuron_tables,
                   compiled, node_assignments, stdp_config, drain_seen, lifecycle,
                   registration, callback, routing_threads, rpc, r_idx, r_spikes, ninject>>

NextLearning ==
    \/ ~Loaded(1) /\ LoadTable(1, 1, 0)
    \/ \E config \in LearningConfigs : SetStdpConfig(config)
    \/ \E src \in RemoteSources : Arrive(1, src)
    \/ \E v \in {Scale} : Loaded(1) /\ Arrived(1) < MaxArrive /\ Inject(target[1], target[2], v)
    \/ StepLearning(1)

SpecLearning == InitLearning /\ [][NextLearning]_vars

\* C31: with STDP enabled, in every reachable state (after
\* load_neurons_from_table, after set_stdp_config replaced the configuration,
\* after any LTP/LTD updates) every synapse weight w satisfies
\* w_min <= w <= w_max of the engine's current STDP configuration.
C31_WeightsWithinBounds ==
    stdp_config.enabled =>
        \A e \in Engines : \A n \in DOMAIN synapses[e] :
            \A k \in 1..Len(synapses[e][n]) :
                /\ stdp_config.w_min <= synapses[e][n][k].weight
                /\ synapses[e][n][k].weight <= stdp_config.w_max

\* the learning state a disabled configuration must leave alone
LearnedState ==
    <<[e \in Engines |-> [n \in DOMAIN synapses[e] |-> WeightsOf(synapses[e][n])]],
      [e \in Engines |-> [n \in DOMAIN neurons[e] |->
                             <<neurons[e][n].pre_trace, neurons[e][n].post_trace>>]],
      [e \in Engines |-> stats[e].stdp_updates]>>

\* C32: with stdp_config.enabled = false, no injection, simulation step,
\* routed spike or fire changes a synapse weight, a neuron's pre_trace or
\* post_trace, or the stdp_updates counter of SNNEngineSTDP.
C32_DisabledLeavesLearningAlone ==
    [][(/\ ~stdp_config.enabled
        /\ last_op'.op \in {"inject", "arrive", "step"})
       => LearnedState' = LearnedState]_vars

\* learning is disabled and a step has just fired a neuron that has synapses
\* on which spikes had arrived
C32_Witness ==
    /\ ~stdp_config.enabled
    /\ last_op.op = "step"
    /\ \E i \in 1..Len(last_op.fired) :
          /\ last_op.fired[i].before # <<>>
          /\ \E k \in 1..Len(last_op.fired[i].before) :
                pre_arrivals[last_op.e][last_op.fired[i].n][k] # <<>>

\* C33: with STDP enabled, when a postsynaptic neuron fires at t_post after
\* a presynaptic spike arrived on one of its synapses at t_pre with
\* 0 < t_post - t_pre <= max_delta_t, the weight of that synapse does not
\* decrease, and it increases unless it is already at w_max; this holds for
\* every synapse, also when the presynaptic neuron lives on another node.
C33_PotentiationOnPrePost ==
    (last_op.op = "step" /\ stdp_config.enabled) =>
        \A i \in 1..Len(last_op.fired) :
            LET f == last_op.fired[i]
            IN \A k \in 1..Len(f.before) :
                  (\E j \in 1..Len(pre_arrivals[last_op.e][f.n][k]) :
                      LET t_pre == pre_arrivals[last_op.e][f.n][k][j]
                      IN f.t - t_pre > 0 /\ f.t - t_pre <= stdp_config.max_delta_t)
                  => /\ f.after[k] >= f.before[k]
                     /\ f.after[k] > f.before[k] \/ f.before[k] = stdp_config.w_max

\* C36: nearest-neighbour pairing in _apply_stdp: a triggering spike is
\* paired with the single most recent opposite-side spike only; when that
\* spike is outside 0 < delta_t <= max_delta_t no update is made and no older
\* spike is used; a triggering event updates a synapse at most once.
C36_NearestNeighbourOnly ==
    last_op.op = "step" =>
        /\ \A i \in 1..Len(last_op.updates) :
              last_op.updates[i].paired = last_op.updates[i].nearest
        /\ \A i, j \in 1..Len(last_op.updates) :
              last_op.updates[i].trigger = last_op.updates[j].trigger => i = j

====
